---- MODULE Spec2Model ----
(***************************************************************************)
(* Model of prisma-prefixed-ids (src/src/index.ts, lines 1-481): the       *)
(* schema lookup findRelationModel, the recursive rewriter                 *)
(* processNestedData, the id helper prefixedId and the six operation       *)
(* handlers made by createOperationHandler.                                *)
(*                                                                         *)
(* JavaScript values are tagged pairs <<tag, content>>:                    *)
(*   <<"undef", "">>           undefined                                   *)
(*   <<"null", "">>            null                                        *)
(*   <<"str", s>>              a string supplied by the caller             *)
(*   <<"num", n>>              a number                                    *)
(*   <<"bool", b>>             a boolean                                   *)
(*   <<"gen", <<prefix, k>>>>  the string idGenerator(prefix) returned on  *)
(*                             its k-th invocation                         *)
(*   <<"obj", entries>>        an object, entries = sequence of            *)
(*                             <<key, value>> in insertion order           *)
(*   <<"arr", elements>>       an array                                    *)
(***************************************************************************)
EXTENDS Integers, Sequences, FiniteSets, TLC

----------------------------------------------------------------------------
(* JavaScript values and the language operations the source uses on them   *)

Undef == <<"undef", "">>
Null == <<"null", "">>
Str(s) == <<"str", s>>
Num(n) == <<"num", n>>
Gen(prefix, k) == <<"gen", <<prefix, k>>>>
Bool(b) == <<"bool", b>>
Obj(entries) == <<"obj", entries>>
Arr(elements) == <<"arr", elements>>

Tag(v) == v[1]
IsArray(v) == Tag(v) = "arr"
IsPlainObj(v) == Tag(v) = "obj"
\* typeof v === "object" && v !== null
IsObject(v) == Tag(v) \in {"obj", "arr"}
\* !!v
Truthy(v) ==
  CASE Tag(v) = "undef" -> FALSE
    [] Tag(v) = "null" -> FALSE
    [] Tag(v) = "str" -> v[2] # ""
    [] Tag(v) = "num" -> v[2] # 0
    [] Tag(v) = "bool" -> v[2]
    [] OTHER -> TRUE

Elems(v) == v[2]
Entries(v) == v[2]

\* Object.keys(o) of a plain object, in insertion order
Keys(o) == [i \in 1..Len(Entries(o)) |-> Entries(o)[i][1]]

\* k in o, for a plain object o
HasKey(o, k) == \E i \in 1..Len(Entries(o)) : Entries(o)[i][1] = k

\* o[k] or o.k for a plain object o: undefined when the key is absent
Get(o, k) ==
  IF HasKey(o, k)
  THEN Entries(o)[CHOOSE i \in 1..Len(Entries(o)) : Entries(o)[i][1] = k][2]
  ELSE Undef

\* o[k] = v on a plain object: an existing key keeps its position, a new key
\* is appended
Set(o, k, v) ==
  IF HasKey(o, k)
  THEN Obj([i \in 1..Len(Entries(o)) |->
              IF Entries(o)[i][1] = k THEN <<k, v>> ELSE Entries(o)[i]])
  ELSE Obj(Append(Entries(o), <<k, v>>))

\* { ...v }: own enumerable properties of v copied into a new plain object;
\* an array contributes its indices as keys, null/undefined/number nothing,
\* a string its characters (kept whole under key "0": strings are atoms
\* here, and no payload of this model spreads one)
Spread(v) ==
  CASE Tag(v) = "obj" -> v
    [] Tag(v) = "arr" ->
         Obj([i \in 1..Len(Elems(v)) |-> <<ToString(i - 1), Elems(v)[i]>>])
    [] Tag(v) \in {"str", "gen"} /\ Truthy(v) -> Obj(<< <<"0", v>> >>)
    [] OTHER -> Obj(<<>>)

\* v.k for any value v that is not null/undefined (a property read on null or
\* undefined throws and is guarded by the callers below)
Prop(v, k) == IF IsPlainObj(v) THEN Get(v, k) ELSE Undef

\* k in v, for an object or array v (operation names are never array indices)
In(k, v) == IsPlainObj(v) /\ HasKey(v, k)

----------------------------------------------------------------------------
(* The schema description (DMMF) handed to createPrefixedIdsExtension      *)

Field(n, k, t) == [name |-> n, kind |-> k, type |-> t]

dmmf ==
  [datamodel |-> [models |-> <<
    [name |-> "User",
     fields |-> << Field("id", "scalar", "String"),
                   Field("name", "scalar", "String"),
                   Field("posts", "object", "Post"),
                   Field("comments", "object", "Comment") >>],
    [name |-> "Post",
     fields |-> << Field("id", "scalar", "String"),
                   Field("title", "scalar", "String"),
                   Field("categories", "object", "Category"),
                   Field("comments", "object", "Comment") >>],
    [name |-> "Category",
     fields |-> << Field("id", "scalar", "String"),
                   Field("name", "scalar", "String") >>],
    [name |-> "Comment",
     fields |-> << Field("id", "scalar", "String"),
                   Field("content", "scalar", "String"),
                   Field("likes", "object", "Like") >>],
    [name |-> "Like",
     fields |-> << Field("id", "scalar", "String"),
                   Field("type", "scalar", "String") >>]
  >>]]

ModelNames == {"User", "Post", "Category", "Comment", "Like"}

\* Array.prototype.find over a sequence of records with a name field:
\* index of the first match, 0 when there is none
FindByName(seq, n) ==
  IF \E i \in 1..Len(seq) : seq[i].name = n
  THEN CHOOSE i \in 1..Len(seq) :
         seq[i].name = n /\ \A j \in 1..(i - 1) : seq[j].name # n
  ELSE 0

\* a lookup that returns the type of a field of any kind
findRelationModel_AnyKind(d, parentModel, fieldName) ==
  LET mi == FindByName(d.datamodel.models, parentModel) IN
  IF mi = 0 THEN Null
  ELSE LET model == d.datamodel.models[mi]
           fi == FindByName(model.fields, fieldName) IN
       IF fi = 0 THEN Null
       ELSE Str(model.fields[fi].type)

findRelationModel(d, parentModel, fieldName) ==
  LET mi == FindByName(d.datamodel.models, parentModel) IN
  IF mi = 0 THEN Null
  ELSE LET model == d.datamodel.models[mi]
           fi == FindByName(model.fields, fieldName) IN
       IF fi = 0 \/ model.fields[fi].kind # "object" THEN Null
       ELSE Str(model.fields[fi].type)

RELATION_OPERATIONS ==
  <<"create", "createMany", "connectOrCreate", "upsert", "update", "updateMany">>

isRelationOperation(key) ==
  \E i \in 1..Len(RELATION_OPERATIONS) : RELATION_OPERATIONS[i] = key

----------------------------------------------------------------------------
(* State                                                                   *)

VARIABLES
  prefixes,    \* config.prefixes: [isFunction, table]
  payload,     \* the write payload the caller is assembling
  pmodel,      \* the entity the payload describes
  depth,       \* nesting depth of payload
  specials,    \* how many levels of payload are not a plain nested create
  operation,   \* the handler of the last call ("none" before any call)
  model,       \* the model argument of the last call
  args,        \* the args object of the last call, as the caller built it
  callerArgs,  \* the caller's own objects after the call
  forwarded,   \* the args the handler passed to query
  queryCalls,  \* how many times query was invoked by the last call
  thrown,      \* whether the last call raised
  idCalls,     \* invocations of idGenerator during the last call
  entry,       \* the function that built the extension ("none" before)
  client,      \* the prisma client handed to extendPrismaClient
  given,       \* the dmmf argument createPrefixedIdsExtension received
  extension,   \* the name of the installed extension ("none" without one)
  constructionError,  \* the message of the error construction raised
  continuation,       \* what the query continuation does: resolve or reject
  returned     \* what the last call returned to its caller

\* the variables only construction writes, and the continuation's behaviour
lifecycle == <<entry, client, given, extension, constructionError,
               continuation>>

vars == <<prefixes, payload, pmodel, depth, specials, operation, model, args,
          callerArgs, forwarded, queryCalls, thrown, idCalls, lifecycle,
          returned>>

----------------------------------------------------------------------------
(* Results of the effectful helpers: a value, the number of idGenerator    *)
(* invocations so far, and whether evaluation completed without a throw    *)

R(v, n) == [v |-> v, n |-> n, ok |-> TRUE]
Throw(n) == [v |-> Undef, n |-> n, ok |-> FALSE]

\* r, then F on its value and count unless r threw
Bind(r, F(_, _)) == IF r.ok THEN F(r.v, r.n) ELSE r

\* Sequential evaluation of F over seq[i..], threading accumulator and
\* generator count, stopping at the first throw (for-of)
RECURSIVE FoldM(_, _, _, _, _)
FoldM(F(_, _, _), seq, i, acc, n) ==
  IF i > Len(seq) THEN R(acc, n)
  ELSE Bind(F(seq[i], acc, n), LAMBDA v, m : FoldM(F, seq, i + 1, v, m))

\* seq.map(item => F(item)), as a sequence
MapM(F(_, _), seq, n) ==
  FoldM(LAMBDA item, acc, m :
          Bind(F(item, m), LAMBDA v, k : R(Append(acc, v), k)),
        seq, 1, <<>>, n)

\* the id generator: every invocation returns a fresh string for the prefix
idGenerator(prefix, n) == R(Gen(prefix, n + 1), n + 1)

\* a prefixedId that falls back to a default prefix for an entity without one
prefixedId_DefaultPrefix(modelName, n) ==
  IF prefixes.isFunction
  THEN IF prefixes.table[modelName] = Null THEN idGenerator("id", n)
       ELSE idGenerator(prefixes.table[modelName][2], n)
  ELSE IF modelName \in DOMAIN prefixes.table
       THEN idGenerator(prefixes.table[modelName][2], n)
       ELSE idGenerator("id", n)

\* a prefixedId that invokes the generator before it looks at the prefix and
\* drops the result for an entity without one
prefixedId_GeneratorFirst(modelName, n) ==
  IF prefixes.isFunction
  THEN IF prefixes.table[modelName] = Null THEN R(Null, n + 1)
       ELSE idGenerator(prefixes.table[modelName][2], n)
  ELSE IF modelName \in DOMAIN prefixes.table
       THEN idGenerator(prefixes.table[modelName][2], n)
       ELSE R(Null, n + 1)

prefixedId(modelName, n) ==
  IF prefixes.isFunction
  THEN IF prefixes.table[modelName] = Null THEN R(Null, n)
       ELSE idGenerator(prefixes.table[modelName][2], n)
  ELSE IF modelName \in DOMAIN prefixes.table
       THEN idGenerator(prefixes.table[modelName][2], n)
       ELSE R(Null, n)

\* a root-id test that ignores the id the record already has
NeedsRootId_IgnoringExisting(shouldAddRootId, result) == shouldAddRootId

\* shouldAddRootId && !result.id
NeedsRootId(shouldAddRootId, result) ==
  shouldAddRootId /\ ~Truthy(Get(result, "id"))

\* an id assignment that asks the generator once and hands the same id to
\* every record
AssignId_SharedId(target, modelName, needed, n) ==
  IF ~needed THEN R(target, n)
  ELSE Bind(prefixedId(modelName, 0),
            LAMBDA id, m : IF Truthy(id) THEN R(Set(target, "id", id), n + 1)
                           ELSE R(target, n))

\* an id assignment that does not look at whether an id is needed
AssignId_Regardless(target, modelName, needed, n) ==
  Bind(prefixedId(modelName, n),
       LAMBDA id, m : IF Truthy(id) THEN R(Set(target, "id", id), m)
                      ELSE R(target, m))

\* if (needed) { const id = prefixedId(model); if (id) target.id = id }
AssignId(target, modelName, needed, n) ==
  IF ~needed THEN R(target, n)
  ELSE Bind(prefixedId(modelName, n),
            LAMBDA id, m : IF Truthy(id) THEN R(Set(target, "id", id), m)
                           ELSE R(target, m))

\* a CASE 1 search that looks only at the first non-operation key
Case1RelationField_FirstKeyOnly(ks, modelName) ==
  IF \E i \in 1..Len(ks) :
       /\ ~isRelationOperation(ks[i])
       /\ \A j \in 1..(i - 1) : isRelationOperation(ks[j])
       /\ Truthy(findRelationModel(dmmf, modelName, ks[i]))
  THEN CHOOSE i \in 1..Len(ks) :
         /\ ~isRelationOperation(ks[i])
         /\ \A j \in 1..(i - 1) : isRelationOperation(ks[j])
  ELSE 0

\* the index of the first key of result that is not an operation keyword
\* and resolves to a relation of modelName; 0 when there is none
Case1RelationField(ks, modelName) ==
  IF \E i \in 1..Len(ks) :
       ~isRelationOperation(ks[i])
       /\ Truthy(findRelationModel(dmmf, modelName, ks[i]))
  THEN CHOOSE i \in 1..Len(ks) :
         /\ ~isRelationOperation(ks[i])
         /\ Truthy(findRelationModel(dmmf, modelName, ks[i]))
         /\ \A j \in 1..(i - 1) :
              isRelationOperation(ks[j])
              \/ ~Truthy(findRelationModel(dmmf, modelName, ks[j]))
  ELSE 0

\* CASE 1: the related model of the first non-operation key of result that
\* resolves to a relation, null when none does
Case1RelatedModel(result, modelName) ==
  IF Case1RelationField(Keys(result), modelName) = 0 THEN Null
  ELSE findRelationModel(dmmf, modelName,
         Keys(result)[Case1RelationField(Keys(result), modelName)])

\* CASE 2: whether the connectOrCreate value is rewritten (else passed on)
Case2ConnectOrCreateProcessed(v) == IsArray(v)

RECURSIVE processNestedData(_, _, _, _)

\* x ? processNestedData(x, relatedModel, ..., flag) : x
ProcessIfTruthy(x, relatedModel, flag, n) ==
  IF Truthy(x) THEN processNestedData(x, relatedModel, flag, n) ELSE R(x, n)

\* an upsert item whose update is rewritten like its create
UpsertItem_UpdateGetsRootId(item, relatedModel, n) ==
  IF Tag(item) \in {"null", "undef"} THEN Throw(n)
  ELSE Bind(ProcessIfTruthy(Prop(item, "create"), relatedModel, TRUE, n),
         LAMBDA c, m :
           Bind(ProcessIfTruthy(Prop(item, "update"), relatedModel, TRUE, m),
             LAMBDA u, k :
               R(Set(Set(Spread(item), "create", c), "update", u), k)))

\* { ...item, create: item.create ? .. : item.create,
\*            update: item.update ? .. : item.update }
UpsertItem(item, relatedModel, n) ==
  IF Tag(item) \in {"null", "undef"} THEN Throw(n)
  ELSE Bind(ProcessIfTruthy(Prop(item, "create"), relatedModel, TRUE, n),
         LAMBDA c, m :
           Bind(ProcessIfTruthy(Prop(item, "update"), relatedModel, FALSE, m),
             LAMBDA u, k :
               R(Set(Set(Spread(item), "create", c), "update", u), k)))

\* upsertItems = Array.isArray(v) ? v : [v]; map; array or first element
ProcessUpsert(v, relatedModel, n) ==
  Bind(MapM(LAMBDA item, m : UpsertItem(item, relatedModel, m),
            IF IsArray(v) THEN Elems(v) ELSE <<v>>, n),
       LAMBDA items, m : IF IsArray(v) THEN R(Arr(items), m)
                         ELSE R(items[1], m))

\* { ...item, create: item.create ? processNestedData(..) : item.create }
ConnectOrCreateItem(item, relatedModel, n) ==
  IF Tag(item) \in {"null", "undef"} THEN Throw(n)
  ELSE Bind(ProcessIfTruthy(Prop(item, "create"), relatedModel, TRUE, n),
            LAMBDA c, m : R(Set(Spread(item), "create", c), m))

\* { ...v, data: processNestedData(v.data, relatedModel, ...) }
ProcessCreateMany(v, relatedModel, n) ==
  Bind(processNestedData(Get(v, "data"), relatedModel, TRUE, n),
       LAMBDA d, m : R(Set(Spread(v), "data", d), m))

\* CASE 1, the new value of result[key] once relatedModel is resolved
Case1Dispatch(key, value, relatedModel, n) ==
  IF key = "createMany" /\ In("data", value)
  THEN ProcessCreateMany(value, relatedModel, n)
  ELSE IF key = "upsert" THEN ProcessUpsert(value, relatedModel, n)
  ELSE IF key = "connectOrCreate"
  THEN ConnectOrCreateItem(value, relatedModel, n)
  ELSE IF key = "create" \/ key = "createMany"
  THEN processNestedData(value, relatedModel, TRUE, n)
  ELSE R(value, n)

\* a CASE 2 dispatch that rewrites the values of update and updateMany the
\* way it rewrites the value of create
Case2Dispatch_UpdateRewritten(op, v, relatedModel, n) ==
  IF op = "createMany" /\ ~IsObject(v) THEN Throw(n)
  ELSE IF op = "createMany" /\ In("data", v)
  THEN ProcessCreateMany(v, relatedModel, n)
  ELSE IF op = "upsert" THEN ProcessUpsert(v, relatedModel, n)
  ELSE IF op = "connectOrCreate"
  THEN IF Case2ConnectOrCreateProcessed(v)
       THEN Bind(MapM(LAMBDA item, m :
                        ConnectOrCreateItem(item, relatedModel, m),
                      Elems(v), n),
                 LAMBDA items, m : R(Arr(items), m))
       ELSE R(v, n)
  ELSE processNestedData(v, relatedModel, TRUE, n)

\* CASE 2, the new value of updatedValue[op] for an op present in value
Case2Dispatch(op, v, relatedModel, n) ==
  IF op = "createMany" /\ ~IsObject(v) THEN Throw(n)
  ELSE IF op = "createMany" /\ In("data", v)
  THEN ProcessCreateMany(v, relatedModel, n)
  ELSE IF op = "upsert" THEN ProcessUpsert(v, relatedModel, n)
  ELSE IF op = "connectOrCreate"
  THEN IF Case2ConnectOrCreateProcessed(v)
       THEN Bind(MapM(LAMBDA item, m :
                        ConnectOrCreateItem(item, relatedModel, m),
                      Elems(v), n),
                 LAMBDA items, m : R(Arr(items), m))
       ELSE R(v, n)
  ELSE IF op = "create" \/ op = "createMany"
  THEN processNestedData(v, relatedModel, TRUE, n)
  ELSE R(v, n)

\* CASE 2, one turn of the loop over RELATION_OPERATIONS
Case2Op(op, value, updatedValue, relatedModel, n) ==
  IF ~In(op, value) THEN R(updatedValue, n)
  ELSE Bind(Case2Dispatch(op, Get(value, op), relatedModel, n),
            LAMBDA new, m : R(Set(updatedValue, op, new), m))

\* a relation step that treats every key of the relation value as a create
ProcessRelation_EveryKey(key, value, result, relatedModel, n) ==
  IF ~Truthy(relatedModel) THEN R(result, n)
  ELSE Bind(FoldM(LAMBDA op, acc, m :
                    Bind(processNestedData(Get(acc, op), relatedModel[2],
                                           TRUE, m),
                         LAMBDA new, k : R(Set(acc, op, new), k)),
                  Keys(Spread(value)), 1, Spread(value), n),
            LAMBDA updatedValue, m : R(Set(result, key, updatedValue), m))

\* one turn of the loop over Object.entries(result), with relatedModel the
\* relation resolved for key (CASE 1: through a sibling key, CASE 2: key)
ProcessRelation(key, value, result, relatedModel, n) ==
  IF ~Truthy(relatedModel) THEN R(result, n)
  ELSE IF isRelationOperation(key)
  THEN Bind(Case1Dispatch(key, value, relatedModel[2], n),
            LAMBDA new, m : R(Set(result, key, new), m))
  ELSE Bind(FoldM(LAMBDA op, acc, m :
                    Case2Op(op, value, acc, relatedModel[2], m),
                  RELATION_OPERATIONS, 1, Spread(value), n),
            LAMBDA updatedValue, m : R(Set(result, key, updatedValue), m))

ProcessEntry(key, value, result, modelName, n) ==
  IF ~IsObject(value) THEN R(result, n)
  ELSE ProcessRelation(key, value, result,
         IF isRelationOperation(key) THEN Case1RelatedModel(result, modelName)
         ELSE findRelationModel(dmmf, modelName, key), n)

\* a map over the array that collects its results back to front
MapItems_Reversed(data, modelName, shouldAddRootId, n) ==
  Bind(MapM(LAMBDA item, m :
              processNestedData(item, modelName, shouldAddRootId, m),
            Elems(data), n),
       LAMBDA items, m :
         R(Arr([i \in 1..Len(items) |-> items[Len(items) + 1 - i]]), m))

\* data.map((item) => processNestedData(item, model, .., shouldAddRootId))
MapItems(data, modelName, shouldAddRootId, n) ==
  Bind(MapM(LAMBDA item, m :
              processNestedData(item, modelName, shouldAddRootId, m),
            Elems(data), n),
       LAMBDA items, m : R(Arr(items), m))

processNestedData(data, modelName, shouldAddRootId, n) ==
  IF ~Truthy(data) THEN R(data, n)
  ELSE IF IsArray(data)
  THEN MapItems(data, modelName, shouldAddRootId, n)
  ELSE IF IsPlainObj(data)
  THEN Bind(AssignId(Spread(data), modelName,
                     NeedsRootId(shouldAddRootId, data), n),
            LAMBDA root, m :
              FoldM(LAMBDA e, result, k :
                      ProcessEntry(e[1], e[2], result, modelName, k),
                    Entries(root), 1, root, m))
  ELSE R(data, n)

----------------------------------------------------------------------------
(* createOperationHandler: what one call does to args.  The result holds   *)
(* the args handed to query (fwd), the caller's own data objects as the    *)
(* call leaves them (caller), the idGenerator count and the throw flag     *)

H(fwd, caller, n, ok) == [fwd |-> fwd, caller |-> caller, n |-> n, ok |-> ok]

\* the outcome of a handler whose last rewriting step gave r
Outcome(r, caller) == H(r.v, caller, r.n, r.ok)

\* args[key] = processNestedData(args[key], model, prefixedId, dmmf, flag)
Reassign(a, key, modelName, flag, n) ==
  Bind(processNestedData(Get(a, key), modelName, flag, n),
       LAMBDA v, m : R(Set(a, key, v), m))

\* a direct root assignment that asks for an id and does not write it
DirectRootId_NotWritten(a, key, modelName, n) ==
  Bind(AssignId(Get(a, key), modelName,
                Truthy(Get(a, key)) /\ NeedsRootId(TRUE, Get(a, key)), n),
       LAMBDA v, m : R(a, m))

\* if (args[key] && !args[key].id) { id = prefixedId(model);
\*   if (id) args[key].id = id }   -- writes into the caller's object
DirectRootId(a, key, modelName, n) ==
  Bind(AssignId(Get(a, key), modelName,
                Truthy(Get(a, key)) /\ NeedsRootId(TRUE, Get(a, key)), n),
       LAMBDA v, m : R(IF HasKey(a, key) THEN Set(a, key, v) ELSE a, m))

\* a createMany handler that hands each batch element to the rewriter
CreateManyItems_Rewritten(items, modelName, n) ==
  MapM(LAMBDA item, m :
         IF Tag(item) \in {"null", "undef"} THEN Throw(m)
         ELSE processNestedData(item, modelName, TRUE, m),
       items, n)

\* args.data.map(item => { if (!item.id) {..item.id = id..} return item })
CreateManyItems(items, modelName, n) ==
  MapM(LAMBDA item, m :
         IF Tag(item) \in {"null", "undef"} THEN Throw(m)
         ELSE AssignId(item, modelName, NeedsRootId(TRUE, item), m),
       items, n)

\* a handler that rewrites args.create and leaves args.update as it came
UpsertBranches_CreateOnly(a, modelName, n) ==
  IF Truthy(Get(a, "create"))
  THEN Reassign(a, "create", modelName, TRUE, n) ELSE R(a, n)

\* a handler that rewrites args.create and args.update without testing
\* that they are there
UpsertBranches_Unguarded(a, modelName, n) ==
  Bind(Reassign(a, "create", modelName, TRUE, n),
       LAMBDA a2, m : Reassign(a2, "update", modelName, FALSE, m))

\* the rewriting of args.create and args.update after the direct root id
UpsertBranches(a, modelName, n) ==
  Bind(IF Truthy(Get(a, "create"))
       THEN Reassign(a, "create", modelName, TRUE, n) ELSE R(a, n),
       LAMBDA a2, m : IF Truthy(Get(a2, "update"))
                      THEN Reassign(a2, "update", modelName, FALSE, m)
                      ELSE R(a2, m))

UpsertAfterRootId(a1, modelName) ==
  Outcome(UpsertBranches(a1.v, modelName, a1.n), a1.v)

upsertHandler(a, modelName) ==
  UpsertAfterRootId(DirectRootId(a, "create", modelName, 0), modelName)

ConnectOrCreateAfterRootId(a1, modelName) ==
  Outcome(IF Truthy(Get(a1.v, "create"))
          THEN Reassign(a1.v, "create", modelName, TRUE, a1.n) ELSE a1,
          a1.v)

connectOrCreateHandler(a, modelName) ==
  ConnectOrCreateAfterRootId(DirectRootId(a, "create", modelName, 0),
                             modelName)

\* (a throw inside the map, on a null item, leaves the ids already written
\* into earlier items; the callers of this model pass no such list)
CreateManyOutcome(a, items) ==
  IF items.ok
  THEN H(Set(a, "data", Arr(items.v)), Set(a, "data", Arr(items.v)),
         items.n, TRUE)
  ELSE H(Undef, a, items.n, FALSE)

createManyHandler(a, modelName) ==
  IF Truthy(Get(a, "data")) /\ IsArray(Get(a, "data"))
  THEN CreateManyOutcome(a, CreateManyItems(Elems(Get(a, "data")),
                                            modelName, 0))
  ELSE H(a, a, 0, TRUE)

CreateAfterRootId(a1, modelName) ==
  Outcome(Reassign(a1.v, "data", modelName, TRUE, a1.n), a1.v)

createHandler(a, modelName) ==
  IF Truthy(Get(a, "data"))
  THEN CreateAfterRootId(DirectRootId(a, "data", modelName, 0), modelName)
  ELSE H(a, a, 0, TRUE)

updateHandler(a, modelName) ==
  IF Truthy(Get(a, "data"))
  THEN Outcome(Reassign(a, "data", modelName, FALSE, 0), a)
  ELSE H(a, a, 0, TRUE)

createOperationHandler(op, a, modelName) ==
  IF op = "upsert" THEN upsertHandler(a, modelName)
  ELSE IF op = "connectOrCreate" THEN connectOrCreateHandler(a, modelName)
  ELSE IF op = "createMany" THEN createManyHandler(a, modelName)
  ELSE IF op = "create" THEN createHandler(a, modelName)
  ELSE IF op = "update" \/ op = "updateMany" THEN updateHandler(a, modelName)
  ELSE H(a, a, 0, TRUE)

----------------------------------------------------------------------------
(* Construction: createPrefixedIdsExtension and extendPrismaClient         *)

DMMF_REQUIRED == "DMMF is required for prefixed IDs extension"

\* the dmmf object as a JavaScript value (its content is dmmf above)
DmmfObject == Obj(<< <<"datamodel", Str("models")>> >>)

\* a || b
OrElse(a, b) == IF Truthy(a) THEN a ELSE b

getDMMF(clientOrContext) ==
  IF Truthy(Prop(clientOrContext, "_runtimeDataModel")) THEN DmmfObject
  ELSE OrElse(Prop(clientOrContext, "_baseDmmf"),
       OrElse(Prop(clientOrContext, "_dmmf"),
       OrElse(Prop(Prop(clientOrContext, "_client"), "_baseDmmf"),
              Prop(Prop(clientOrContext, "_client"), "_dmmf"))))

\* a construction that defers the dmmf check to the first call
createPrefixedIdsExtension_Unchecked(d) ==
  [error |-> "", name |-> "prefixedIds"]

\* if (!dmmf) throw new Error(..); .. return { name: "prefixedIds", query }
createPrefixedIdsExtension(d) ==
  IF ~Truthy(d) THEN [error |-> DMMF_REQUIRED, name |-> "none"]
  ELSE [error |-> "", name |-> "prefixedIds"]

\* prisma.$extends(createPrefixedIdsExtension(config, getDMMF(prisma)))
extendPrismaClient(prisma) == createPrefixedIdsExtension(getDMMF(prisma))

\* the continuation: the write itself, which resolves with the persisted
\* record of the args it is given, or rejects
query(a) ==
  IF continuation = "resolves" THEN <<"resolved", a>>
  ELSE <<"rejected", "write failed">>

----------------------------------------------------------------------------
(* The callers: payloads are assembled from a leaf record outwards, one    *)
(* relation level at a time, and then handed to one of the six handlers    *)

MaxDepth == 2
MaxSpecials == 1
MaxSiblings == 1

\* the prefix configurations: an object mapping without an entry for Like
\* and Category, and a prefix function that returns null for Comment
Configs ==
  { [isFunction |-> FALSE,
     table |-> [m \in {"User", "Post", "Comment"} |->
                  CASE m = "User" -> Str("usr") [] m = "Post" -> Str("pst")
                    [] OTHER -> Str("cmt")]],
    [isFunction |-> TRUE,
     table |-> [m \in ModelNames |->
                  CASE m = "User" -> Str("usr") [] m = "Post" -> Str("pst")
                    [] m = "Category" -> Str("cat") [] m = "Like" -> Str("lik")
                    [] OTHER -> Null]] }

\* the id values a caller may put on a record; Undef stands for "no id key"
IdValues == {Undef, Null, Str(""), Num(0), Str("keep")}

\* the entities of the innermost record of a payload
LeafModels == {"Like"}

WithId(idv, rest) ==
  Obj(IF idv = Undef THEN rest ELSE << <<"id", idv>> >> \o rest)

\* a record without relations; its one scalar is written name whatever the
\* entity (the code never looks at scalars other than id)
Leaf(idv) == WithId(idv, << <<"name", Str("n")>> >>)

\* the record that fills the further places of a list; it has no id
Sibling == Obj(<< <<"name", Str("s")>> >>)

Where == Obj(<< <<"id", Str("w")>> >>)

\* [c, s, .., s]: c followed by MaxSiblings copies of s
WithSiblings(c, s) == Arr(<<c>> \o [i \in 1..MaxSiblings |-> s])

\* the (parent entity, field) pairs whose relation targets entity m
RelationsInto(m) ==
  { pf \in ModelNames \X {"posts", "comments", "categories", "likes"} :
      findRelationModel(dmmf, pf[1], pf[2]) = Str(m) }

WhereCreate(c) == Obj(<< <<"where", Where>>, <<"create", c>> >>)
WhereCreateUpdate(c, u) ==
  Obj(<< <<"where", Where>>, <<"create", c>>, <<"update", u>> >>)
WhereData(c) == Obj(<< <<"where", Where>>, <<"data", c>> >>)
CreateManyOf(elements) ==
  Obj(<< <<"data", elements>>, <<"skipDuplicates", Bool(TRUE)>> >>)

\* the ways of nesting a record c under a relation field, other than a
\* plain create of c alone
SpecialKinds ==
  {"createArr", "createMany", "cocOne", "cocArr", "upsertOne", "upsertArr",
   "update", "mixed", "inert", "case1"}

\* the operation keywords and values that carry c in a nesting of each kind
OpEntries(kind, c) ==
  CASE kind = "create" -> << <<"create", c>> >>
    [] kind = "createArr" ->
         << <<"create", WithSiblings(c, Sibling)>> >>
    [] kind = "createMany" ->
         << <<"createMany", CreateManyOf(WithSiblings(c, Sibling))>> >>
    [] kind = "cocOne" -> << <<"connectOrCreate", WhereCreate(c)>> >>
    [] kind = "cocArr" ->
         << <<"connectOrCreate",
              WithSiblings(WhereCreate(c), WhereCreate(Sibling))>> >>
    [] kind = "upsertOne" -> << <<"upsert", WhereCreateUpdate(c, c)>> >>
    [] kind = "upsertArr" ->
         << <<"upsert",
              WithSiblings(WhereCreateUpdate(c, c),
                           WhereCreateUpdate(Sibling, Sibling))>> >>
    [] kind = "update" ->
         << <<"update", WhereData(c)>>, <<"updateMany", WhereData(c)>> >>
    [] kind = "mixed" ->
         << <<"connect", c>>, <<"disconnect", c>>, <<"create", c>>,
            <<"delete", c>> >>
    [] kind = "inert" ->
         << <<"create", Arr(<<>>)>>,
            <<"createMany", CreateManyOf(Arr(<<>>))>> >>
    [] kind = "case1" ->
         << <<"create", c>>,
            <<"createMany", CreateManyOf(WithSiblings(c, Sibling))>>,
            <<"connectOrCreate", WhereCreate(c)>>,
            <<"upsert", WhereCreateUpdate(c, c)>>,
            <<"update", WhereData(c)>> >>

\* the record of the parent entity that carries child c under field f: the
\* operations sit under f, except that "inert" creates c under a key that
\* is no field of the schema (and nothing under f) and "case1" puts the
\* operations on the record itself, next to f; the "mixed" record carries
\* an id of its own
WrapNode(kind, f, c) ==
  CASE kind = "inert" ->
         Obj(<< <<"name", Str("n")>>,
                <<"meta", Obj(<< <<"create", c>> >>)>>,
                <<f, Obj(OpEntries(kind, c))>> >>)
    [] kind = "mixed" ->
         Obj(<< <<"id", Str("keep")>>, <<f, Obj(OpEntries(kind, c))>> >>)
    [] kind = "case1" ->
         Obj(<< <<f, Obj(<< <<"connect", Where>> >>)>> >>
             \o OpEntries(kind, c))
    [] OTHER ->
         Obj(<< <<"name", Str("n")>>, <<f, Obj(OpEntries(kind, c))>> >>)

\* the args objects a caller builds around the payload for each operation
\* (the variants that leave the payload out or halve it are built around
\* leaf payloads only)
ArgsFor(op, p, d) ==
  CASE op = "create" -> { Obj(<< <<"data", p>>, <<"select", Where>> >>) }
    [] op \in {"update", "updateMany"} -> { WhereData(p) }
    [] op = "createMany" ->
         { CreateManyOf(WithSiblings(p, Sibling)) }
           \cup IF d = 0
                THEN { CreateManyOf(Arr(<<>>)), CreateManyOf(Arr(<<p, Null>>)) }
                ELSE {}
    [] op = "upsert" ->
         { WhereCreateUpdate(p, p) }
           \cup IF d = 0 THEN { WhereCreate(p) } ELSE {}
    [] op = "connectOrCreate" -> { WhereCreate(p) }

----------------------------------------------------------------------------
(* Specification                                                           *)

Init ==
  /\ prefixes \in Configs
  /\ pmodel \in LeafModels
  /\ payload \in {Leaf(idv) : idv \in IdValues}
  /\ depth = 0
  /\ specials = 0
  /\ operation = "none"
  /\ model = "none"
  /\ args = Undef
  /\ callerArgs = Undef
  /\ forwarded = Undef
  /\ queryCalls = 0
  /\ thrown = FALSE
  /\ idCalls = 0
  /\ entry = "createPrefixedIdsExtension"
  /\ client = Undef
  /\ given = DmmfObject
  /\ extension = "prefixedIds"
  /\ constructionError = ""
  /\ continuation = "resolves"
  /\ returned = Undef

\* the caller nests the payload in a plain create under a relation field
WrapCreate ==
  /\ operation = "none"
  /\ depth < MaxDepth
  /\ \E pf \in RelationsInto(pmodel) :
       /\ payload' = WrapNode("create", pf[2], payload)
       /\ pmodel' = pf[1]
  /\ depth' = depth + 1
  /\ UNCHANGED <<prefixes, specials, operation, model, args, callerArgs,
                 forwarded, queryCalls, thrown, idCalls, lifecycle, returned>>

\* the caller nests the payload under a relation field in any other way
WrapSpecial ==
  /\ operation = "none"
  /\ depth < MaxDepth
  /\ specials < MaxSpecials
  /\ \E pf \in RelationsInto(pmodel), kind \in SpecialKinds :
       /\ payload' = WrapNode(kind, pf[2], payload)
       /\ pmodel' = pf[1]
  /\ depth' = depth + 1
  /\ specials' = specials + 1
  /\ UNCHANGED <<prefixes, operation, model, args, callerArgs, forwarded,
                 queryCalls, thrown, idCalls, lifecycle, returned>>

\* one intercepted call: the handler rewrites args and invokes query(args)
Return(a, h) ==
  /\ args' = a
  /\ callerArgs' = h.caller
  /\ forwarded' = h.fwd
  /\ queryCalls' = IF h.ok THEN 1 ELSE 0
  /\ thrown' = ~h.ok
  /\ idCalls' = h.n
  /\ returned' = IF h.ok THEN query(h.fwd) ELSE <<"threw", "TypeError">>

Call(op) ==
  /\ extension = "prefixedIds"
  /\ operation = "none"
  /\ \E a \in ArgsFor(op, payload, depth) :
       Return(a, createOperationHandler(op, a, pmodel))
  /\ operation' = op
  /\ model' = pmodel
  /\ UNCHANGED <<prefixes, payload, pmodel, depth, specials, lifecycle>>

CallCreate == Call("create")
CallCreateMany == Call("createMany")
CallUpdate == Call("update")
CallUpdateMany == Call("updateMany")
CallUpsert == Call("upsert")
CallConnectOrCreate == Call("connectOrCreate")

Next ==
  \/ WrapCreate
  \/ WrapSpecial
  \/ CallCreate
  \/ CallCreateMany
  \/ CallUpdate
  \/ CallUpdateMany
  \/ CallUpsert
  \/ CallConnectOrCreate

Spec == Init /\ [][Next]_vars

----------------------------------------------------------------------------
(* Unusual payloads: operation keywords with values of the wrong shape,    *)
(* operation keywords on the record itself, and configurations without any *)
(* prefix                                                                  *)

\* an empty object mapping, and a prefix function that always returns null
NoPrefixConfigs ==
  { [isFunction |-> FALSE, table |-> [m \in {} |-> Null]],
    [isFunction |-> TRUE, table |-> [m \in ModelNames |-> Null]] }

UnusualKinds ==
  {"createManyNull", "upsertNull", "upsertNullItem", "dataString",
   "dataNumber", "dataNull", "dataObject", "case1List", "case1Late",
   "case1Alone"}

\* the record of the parent entity that carries child c under field f in an
\* unusual way
UnusualNode(kind, f, c) ==
  CASE kind = "createManyNull" ->
         Obj(<< <<f, Obj(<< <<"create", c>>, <<"createMany", Null>> >>)>> >>)
    [] kind = "upsertNull" ->
         Obj(<< <<f, Obj(<< <<"create", c>>, <<"upsert", Null>> >>)>> >>)
    [] kind = "upsertNullItem" ->
         Obj(<< <<f, Obj(<< <<"upsert",
                              Arr(<<WhereCreateUpdate(c, c), Null>>)>> >>)>> >>)
    [] kind = "dataString" ->
         Obj(<< <<f, Obj(<< <<"createMany",
                              Obj(<< <<"data", Str("invalid")>> >>)>>,
                            <<"create", c>> >>)>> >>)
    [] kind = "dataNumber" ->
         Obj(<< <<f, Obj(<< <<"createMany", Obj(<< <<"data", Num(5)>> >>)>>,
                            <<"create", c>> >>)>> >>)
    [] kind = "dataNull" ->
         Obj(<< <<f, Obj(<< <<"createMany", Obj(<< <<"data", Null>> >>)>>,
                            <<"create", c>> >>)>> >>)
    [] kind = "dataObject" ->
         Obj(<< <<f, Obj(<< <<"createMany", Obj(<< <<"data", c>> >>)>>,
                            <<"create", Sibling>> >>)>> >>)
    [] kind = "case1List" ->
         Obj(<< <<f, Obj(<< <<"connect", Where>> >>)>>,
                <<"connectOrCreate",
                  WithSiblings(WhereCreate(c), WhereCreate(Sibling))>> >>)
    [] kind = "case1Late" ->
         Obj(<< <<"name", Str("n")>>,
                <<"create", c>>,
                <<"createMany", Obj(<< <<"data", Str("invalid")>> >>)>>,
                <<f, Obj(<< <<"connect", Where>> >>)>> >>)
    [] kind = "case1Alone" ->
         Obj(<< <<"name", Str("n")>>, <<"create", c>> >>)

InitUnusual ==
  /\ prefixes \in Configs \cup NoPrefixConfigs
  /\ pmodel \in LeafModels
  /\ payload \in {Leaf(idv) : idv \in IdValues}
  /\ depth = 0
  /\ specials = 0
  /\ operation = "none"
  /\ model = "none"
  /\ args = Undef
  /\ callerArgs = Undef
  /\ forwarded = Undef
  /\ queryCalls = 0
  /\ thrown = FALSE
  /\ idCalls = 0
  /\ entry = "createPrefixedIdsExtension"
  /\ client = Undef
  /\ given = DmmfObject
  /\ extension = "prefixedIds"
  /\ constructionError = ""
  /\ continuation = "resolves"
  /\ returned = Undef

\* the caller nests the payload under a relation field in an unusual way
WrapUnusual ==
  /\ operation = "none"
  /\ depth < MaxDepth
  /\ specials < MaxSpecials
  /\ \E pf \in RelationsInto(pmodel), kind \in UnusualKinds :
       /\ payload' = UnusualNode(kind, pf[2], payload)
       /\ pmodel' = pf[1]
  /\ depth' = depth + 1
  /\ specials' = specials + 1
  /\ UNCHANGED <<prefixes, operation, model, args, callerArgs, forwarded,
                 queryCalls, thrown, idCalls, lifecycle, returned>>

NextUnusual ==
  \/ WrapCreate
  \/ WrapUnusual
  \/ CallCreate
  \/ CallCreateMany
  \/ CallUpdate
  \/ CallUpdateMany
  \/ CallUpsert
  \/ CallConnectOrCreate

SpecUnusual == InitUnusual /\ [][NextUnusual]_vars

----------------------------------------------------------------------------
(* The life of an extension: it is built by createPrefixedIdsExtension or  *)
(* extendPrismaClient, then its handlers are called with leaf payloads,    *)
(* and the continuation resolves or rejects                                *)

\* the clients extendPrismaClient may be handed
Clients ==
  { Obj(<<>>),
    Obj(<< <<"_runtimeDataModel", Obj(<< <<"models", Obj(<<>>)>> >>)>> >>),
    Obj(<< <<"_baseDmmf", DmmfObject>> >>),
    Obj(<< <<"_dmmf", DmmfObject>> >>),
    Obj(<< <<"_dmmf", Null>> >>),
    Obj(<< <<"_client", Obj(<< <<"_baseDmmf", DmmfObject>> >>)>> >>),
    Obj(<< <<"_client", Obj(<< <<"_dmmf", DmmfObject>> >>)>> >>),
    Obj(<< <<"_client", Obj(<<>>)>> >>) }

InitLifecycle ==
  /\ prefixes \in Configs
  /\ pmodel \in LeafModels
  /\ payload \in {Leaf(idv) : idv \in IdValues}
  /\ depth = 0
  /\ specials = 0
  /\ operation = "none"
  /\ model = "none"
  /\ args = Undef
  /\ callerArgs = Undef
  /\ forwarded = Undef
  /\ queryCalls = 0
  /\ thrown = FALSE
  /\ idCalls = 0
  /\ entry = "none"
  /\ client \in Clients
  /\ given = Undef
  /\ extension = "none"
  /\ constructionError = ""
  /\ continuation \in {"resolves", "rejects"}
  /\ returned = Undef

\* the outcome of a construction that handed d to createPrefixedIdsExtension
Constructed(by, d, ext) ==
  /\ entry = "none"
  /\ entry' = by
  /\ given' = d
  /\ extension' = ext.name
  /\ constructionError' = ext.error
  /\ UNCHANGED <<prefixes, payload, pmodel, depth, specials, operation, model,
                 args, callerArgs, forwarded, queryCalls, thrown, idCalls,
                 client, continuation, returned>>

Construct ==
  \E d \in {DmmfObject, Null, Undef} :
    Constructed("createPrefixedIdsExtension", d, createPrefixedIdsExtension(d))

ExtendClient ==
  Constructed("extendPrismaClient", getDMMF(client),
              extendPrismaClient(client))

NextLifecycle ==
  \/ Construct
  \/ ExtendClient
  \/ CallCreate
  \/ CallCreateMany
  \/ CallUpdate
  \/ CallUpdateMany
  \/ CallUpsert
  \/ CallConnectOrCreate

SpecLifecycle == InitLifecycle /\ [][NextLifecycle]_vars

----------------------------------------------------------------------------------
(* The rewriter over a store of objects.  processNestedData works on       *)
(* references: `{ ...data }` makes a new object whose properties still     *)
(* refer to the objects of the input, and an assignment changes the object *)
(* it is made on.  A store is a sequence of cells, a reference <<"ref", i>>*)
(* names cell i, and a cell is an object or array whose members are        *)
(* scalars or references.  The operators below are processNestedData and   *)
(* its helpers once more, statement by statement, on a store; they tell    *)
(* what a call leaves of the objects it was given.                         *)

Ref(i) == <<"ref", i>>
IsRef(v) == Tag(v) = "ref"
Cell(h, v) == h[v[2]]

\* results of the helpers on a store: as R, with the store h
RH(v, n, h) == [v |-> v, n |-> n, ok |-> TRUE, h |-> h]
ThrowH(n, h) == [v |-> Undef, n |-> n, ok |-> FALSE, h |-> h]
BindH(r, F(_, _, _)) == IF r.ok THEN F(r.v, r.n, r.h) ELSE r

RECURSIVE FoldH(_, _, _, _, _, _)
FoldH(F(_, _, _, _), seq, i, acc, n, h) ==
  IF i > Len(seq) THEN RH(acc, n, h)
  ELSE BindH(F(seq[i], acc, n, h),
             LAMBDA v, m, g : FoldH(F, seq, i + 1, v, m, g))

MapH(F(_, _, _), seq, n, h) ==
  FoldH(LAMBDA item, acc, m, g :
          BindH(F(item, m, g), LAMBDA v, k, g2 : RH(Append(acc, v), k, g2)),
        seq, 1, <<>>, n, h)

\* a new object or array with the given content
Alloc(cell, n, h) == RH(Ref(Len(h) + 1), n, Append(h, cell))

\* the caller's value v put into the store: one cell per object and array
RECURSIVE Load(_, _, _)
LoadMembers(vs, n, h) ==
  MapH(LAMBDA v, m, g : Load(v, m, g), vs, n, h)

Load(v, n, h) ==
  IF IsPlainObj(v)
  THEN BindH(LoadMembers([i \in 1..Len(Entries(v)) |-> Entries(v)[i][2]],
                         n, h),
             LAMBDA ms, m, g :
               Alloc(Obj([i \in 1..Len(ms) |-> <<Entries(v)[i][1], ms[i]>>]),
                     m, g))
  ELSE IF IsArray(v)
  THEN BindH(LoadMembers(Elems(v), n, h),
             LAMBDA ms, m, g : Alloc(Arr(ms), m, g))
  ELSE RH(v, n, h)

\* the value a reference stands for
RECURSIVE Deref(_, _)
Deref(h, v) ==
  IF ~IsRef(v) THEN v
  ELSE IF IsPlainObj(Cell(h, v))
  THEN Obj([i \in 1..Len(Entries(Cell(h, v))) |->
              <<Entries(Cell(h, v))[i][1],
                Deref(h, Entries(Cell(h, v))[i][2])>>])
  ELSE Arr([i \in 1..Len(Elems(Cell(h, v))) |->
              Deref(h, Elems(Cell(h, v))[i])])

IsArrayH(h, v) == IsRef(v) /\ IsArray(Cell(h, v))
IsPlainObjH(h, v) == IsRef(v) /\ IsPlainObj(Cell(h, v))

\* v.k
PropH(h, v, k) == IF IsPlainObjH(h, v) THEN Get(Cell(h, v), k) ELSE Undef

\* k in v
InH(h, k, v) == IsPlainObjH(h, v) /\ HasKey(Cell(h, v), k)

\* the properties { ...v } copies
SpreadH(h, v) == IF IsRef(v) THEN Spread(Cell(h, v)) ELSE Spread(v)

\* target[k] = v
Write(h, target, k, v) == [h EXCEPT ![target[2]] = Set(@, k, v)]

\* a "copy" that is the object itself
ShallowCopy_SameObject(v, n, h) == RH(v, n, h)

\* const result = { ...v }
ShallowCopy(v, n, h) == Alloc(SpreadH(h, v), n, h)

\* if (needed) { const id = prefixedId(model); if (id) target.id = id }
AssignIdH(target, modelName, needed, n, h) ==
  IF ~needed THEN RH(target, n, h)
  ELSE IF Truthy(prefixedId(modelName, n).v)
  THEN RH(target, prefixedId(modelName, n).n,
          Write(h, target, "id", prefixedId(modelName, n).v))
  ELSE RH(target, prefixedId(modelName, n).n, h)

RECURSIVE processNestedDataH(_, _, _, _, _)

ProcessIfTruthyH(x, relatedModel, flag, n, h) ==
  IF Truthy(x) THEN processNestedDataH(x, relatedModel, flag, n, h)
  ELSE RH(x, n, h)

\* { ...item, create: .., update: .. }
UpsertItemH(item, relatedModel, n, h) ==
  IF Tag(item) \in {"null", "undef"} THEN ThrowH(n, h)
  ELSE BindH(ProcessIfTruthyH(PropH(h, item, "create"), relatedModel, TRUE,
                              n, h),
         LAMBDA c, m, g :
           BindH(ProcessIfTruthyH(PropH(g, item, "update"), relatedModel,
                                  FALSE, m, g),
             LAMBDA u, k, g2 :
               Alloc(Set(Set(SpreadH(g2, item), "create", c), "update", u),
                     k, g2)))

ProcessUpsertH(v, relatedModel, n, h) ==
  BindH(MapH(LAMBDA item, m, g : UpsertItemH(item, relatedModel, m, g),
             IF IsArrayH(h, v) THEN Elems(Cell(h, v)) ELSE <<v>>, n, h),
        LAMBDA items, m, g : IF IsArrayH(h, v) THEN Alloc(Arr(items), m, g)
                             ELSE RH(items[1], m, g))

\* { ...item, create: .. }
ConnectOrCreateItemH(item, relatedModel, n, h) ==
  IF Tag(item) \in {"null", "undef"} THEN ThrowH(n, h)
  ELSE BindH(ProcessIfTruthyH(PropH(h, item, "create"), relatedModel, TRUE,
                              n, h),
             LAMBDA c, m, g : Alloc(Set(SpreadH(g, item), "create", c), m, g))

\* { ...v, data: processNestedData(v.data, ..) }
ProcessCreateManyH(v, relatedModel, n, h) ==
  BindH(processNestedDataH(PropH(h, v, "data"), relatedModel, TRUE, n, h),
        LAMBDA d, m, g : Alloc(Set(SpreadH(g, v), "data", d), m, g))

Case1DispatchH(key, value, relatedModel, n, h) ==
  IF key = "createMany" /\ InH(h, "data", value)
  THEN ProcessCreateManyH(value, relatedModel, n, h)
  ELSE IF key = "upsert" THEN ProcessUpsertH(value, relatedModel, n, h)
  ELSE IF key = "connectOrCreate"
  THEN ConnectOrCreateItemH(value, relatedModel, n, h)
  ELSE IF key = "create" \/ key = "createMany"
  THEN processNestedDataH(value, relatedModel, TRUE, n, h)
  ELSE RH(value, n, h)

Case2DispatchH(op, v, relatedModel, n, h) ==
  IF op = "createMany" /\ ~IsRef(v) THEN ThrowH(n, h)
  ELSE IF op = "createMany" /\ InH(h, "data", v)
  THEN ProcessCreateManyH(v, relatedModel, n, h)
  ELSE IF op = "upsert" THEN ProcessUpsertH(v, relatedModel, n, h)
  ELSE IF op = "connectOrCreate"
  THEN IF IsArrayH(h, v)
       THEN BindH(MapH(LAMBDA item, m, g :
                         ConnectOrCreateItemH(item, relatedModel, m, g),
                       Elems(Cell(h, v)), n, h),
                  LAMBDA items, m, g : Alloc(Arr(items), m, g))
       ELSE RH(v, n, h)
  ELSE IF op = "create" \/ op = "createMany"
  THEN processNestedDataH(v, relatedModel, TRUE, n, h)
  ELSE RH(v, n, h)

\* CASE 2, one turn of the loop over RELATION_OPERATIONS:
\* updatedValue[op] = ..
Case2OpH(op, value, updatedValue, relatedModel, n, h) ==
  IF ~InH(h, op, value) THEN RH(updatedValue, n, h)
  ELSE BindH(Case2DispatchH(op, PropH(h, value, op), relatedModel, n, h),
             LAMBDA new, m, g :
               RH(updatedValue, m, Write(g, updatedValue, op, new)))

\* CASE 2: const updatedValue = { ...value }; the loop;
\* result[key] = updatedValue
Case2H(key, value, result, relatedModel, n, h) ==
  BindH(ShallowCopy(value, n, h),
        LAMBDA updatedValue, m, g :
          BindH(FoldH(LAMBDA op, acc, k, g2 :
                        Case2OpH(op, value, acc, relatedModel, k, g2),
                      RELATION_OPERATIONS, 1, updatedValue, m, g),
                LAMBDA uv, k, g2 : RH(result, k, Write(g2, result, key, uv))))

\* CASE 1: result[key] = ..
Case1H(key, value, result, relatedModel, n, h) ==
  BindH(Case1DispatchH(key, value, relatedModel, n, h),
        LAMBDA new, m, g : RH(result, m, Write(g, result, key, new)))

ProcessRelationH(key, value, result, relatedModel, n, h) ==
  IF ~Truthy(relatedModel) THEN RH(result, n, h)
  ELSE IF isRelationOperation(key)
  THEN Case1H(key, value, result, relatedModel[2], n, h)
  ELSE Case2H(key, value, result, relatedModel[2], n, h)

\* one turn of the loop over Object.entries(result)
ProcessEntryH(key, value, result, modelName, n, h) ==
  IF ~IsRef(value) THEN RH(result, n, h)
  ELSE ProcessRelationH(key, value, result,
         IF isRelationOperation(key)
         THEN Case1RelatedModel(Cell(h, result), modelName)
         ELSE findRelationModel(dmmf, modelName, key), n, h)

\* the object branch once result = { ...data } is made
ProcessObjectH(result, modelName, shouldAddRootId, n, h) ==
  BindH(AssignIdH(result, modelName,
                  NeedsRootId(shouldAddRootId, Cell(h, result)), n, h),
        LAMBDA root, m, g :
          FoldH(LAMBDA e, acc, k, g2 :
                  ProcessEntryH(e[1], e[2], acc, modelName, k, g2),
                Entries(Cell(g, root)), 1, root, m, g))

processNestedDataH(data, modelName, shouldAddRootId, n, h) ==
  IF ~Truthy(data) THEN RH(data, n, h)
  ELSE IF IsArrayH(h, data)
  THEN BindH(MapH(LAMBDA item, m, g :
                    processNestedDataH(item, modelName, shouldAddRootId,
                                       m, g),
                  Elems(Cell(h, data)), n, h),
             LAMBDA items, m, g : Alloc(Arr(items), m, g))
  ELSE IF IsPlainObjH(h, data)
  THEN BindH(ShallowCopy(data, n, h),
             LAMBDA result, m, g :
               ProcessObjectH(result, modelName, shouldAddRootId, m, g))
  ELSE RH(data, n, h)

\* a call of processNestedData on the caller's value data, in a store that
\* holds nothing else
CallOnStore(loaded, modelName, shouldAddRootId) ==
  processNestedDataH(loaded.v, modelName, shouldAddRootId, 0, loaded.h)

\* the caller's value as that call leaves it, and the value it returns
LeftOf(loaded, after) == Deref(after.h, loaded.v)
ReturnedOf(after) == IF after.ok THEN Deref(after.h, after.v) ELSE Undef

----------------------------------------------------------------------------
(* The exported functions called directly: processNestedData on a payload  *)
(* (the unit tests call it so), once more on what it returned, and         *)
(* findRelationModel on an entity name and a field name.  For these calls  *)
(* args holds the arguments, forwarded what the function returned,         *)
(* callerArgs the argument as the call leaves it and returned the value    *)
(* the call on the store returns.                                          *)

\* nestings whose value the rewriter has nothing to do with: a relation
\* field without operation keyword, a key that is no field of the entity, a
\* scalar field that holds an object, a relation field that holds a list
InertKinds == {"noKeyword", "unknownField", "scalarField", "list"}

InertNode(kind, f, c) ==
  CASE kind = "noKeyword" ->
         Obj(<< <<"name", Str("n")>>,
                <<f, Obj(<< <<"connect", Where>>, <<"invalidOp", c>> >>)>> >>)
    [] kind = "unknownField" ->
         Obj(<< <<"name", Str("n")>>,
                <<"unknownRelation", Obj(<< <<"create", c>> >>)>> >>)
    [] kind = "scalarField" ->
         Obj(<< <<"id", Obj(<< <<"create", c>> >>)>>,
                <<f, Obj(<< <<"create", Sibling>> >>)>> >>)
    [] kind = "list" ->
         Obj(<< <<"name", Str("n")>>, <<f, WithSiblings(c, Sibling)>> >>)

\* the nestings the direct calls are made on
RewriterKinds ==
  {"createArr", "createMany", "cocOne", "cocArr", "upsertArr", "update",
   "case1"}
    \cup {"dataObject", "case1List", "case1Late"}
    \cup InertKinds

RewriterNode(kind, f, c) ==
  IF kind \in InertKinds THEN InertNode(kind, f, c)
  ELSE IF kind \in UnusualKinds THEN UnusualNode(kind, f, c)
  ELSE WrapNode(kind, f, c)

\* the names findRelationModel is asked about: the entities and fields of
\* the schema, and names that differ from them in case or are unknown
LookupModels == ModelNames \cup {"user", "Unknown"}
LookupFields ==
  {"id", "name", "title", "posts", "comments", "categories", "likes",
   "Posts", "unknown"}

\* the direct calls are made with a generator that returns a string for
\* some of the entities or for all of them, as the unit tests pass one
InitRewriter ==
  /\ InitUnusual
  /\ prefixes \in Configs

WrapRewriter ==
  /\ operation = "none"
  /\ depth < MaxDepth
  /\ specials < MaxSpecials
  /\ \E pf \in RelationsInto(pmodel), kind \in RewriterKinds :
       /\ payload' = RewriterNode(kind, pf[2], payload)
       /\ pmodel' = pf[1]
  /\ depth' = depth + 1
  /\ specials' = specials + 1
  /\ UNCHANGED <<prefixes, operation, model, args, callerArgs, forwarded,
                 queryCalls, thrown, idCalls, lifecycle, returned>>

\* processNestedData(data, m, prefixedId, dmmf, flag) gave r; on the store
\* loaded with data it gave after
Rewritten(name, data, m, flag, r, loaded, after) ==
  /\ operation' = name
  /\ model' = m
  /\ args' = Obj(<< <<"data", data>>, <<"shouldAddRootId", Bool(flag)>> >>)
  /\ forwarded' = r.v
  /\ idCalls' = r.n
  /\ thrown' = ~r.ok
  /\ callerArgs' = LeftOf(loaded, after)
  /\ returned' = ReturnedOf(after)
  /\ UNCHANGED <<prefixes, payload, pmodel, depth, specials, queryCalls,
                 lifecycle>>

RewriteCall(name, data, m, flag) ==
  \E loaded \in {Load(data, 0, <<>>)} :
    \E after \in {CallOnStore(loaded, m, flag)} :
      \E r \in {processNestedData(data, m, flag, 0)} :
        Rewritten(name, data, m, flag, r, loaded, after)

Rewrite ==
  /\ operation = "none"
  /\ \E flag \in BOOLEAN :
       RewriteCall("processNestedData", payload, pmodel, flag)

\* processNestedData applied to what it returned, with the same entity and
\* the same flag
RewriteAgain ==
  /\ operation = "processNestedData"
  /\ ~thrown
  /\ RewriteCall("processNestedData twice", forwarded, model,
                 Get(args, "shouldAddRootId")[2])

Lookup ==
  /\ operation = "none"
  /\ depth = 0
  /\ \E m \in LookupModels, f \in LookupFields :
       /\ model' = m
       /\ args' = Str(f)
       /\ returned' = findRelationModel(dmmf, m, f)
  /\ operation' = "findRelationModel"
  /\ UNCHANGED <<prefixes, payload, pmodel, depth, specials, callerArgs,
                 forwarded, queryCalls, thrown, idCalls, lifecycle>>

NextRewriter ==
  \/ WrapCreate
  \/ WrapRewriter
  \/ Rewrite
  \/ RewriteAgain
  \/ Lookup

SpecRewriter == InitRewriter /\ [][NextRewriter]_vars

----------------------------------------------------------------------------
(* The same payload handed to a handler twice: a caller keeps its payload  *)
(* object and makes a second create or createMany call with it.  The       *)
(* handlers run to their `return query(args)` without yielding, so two     *)
(* calls that are interleaved run their rewriting one after the other.     *)
(* After the second call queryCalls is 2, args and forwarded are still     *)
(* those of the first call, and returned is what the second call's         *)
(* continuation was given.                                                 *)

\* what the second call forwards, out, for its args in: the generator goes
\* on from its k earlier invocations, so the ids the second call generated
\* (they are where out differs from in) are later strings
RECURSIVE Later(_, _, _)
Later(in, out, k) ==
  IF Tag(out) = "gen" /\ in # out THEN Gen(out[2][1], out[2][2] + k)
  ELSE IF IsPlainObj(out)
  THEN Obj([i \in 1..Len(Entries(out)) |->
              <<Entries(out)[i][1],
                Later(Prop(in, Entries(out)[i][1]), Entries(out)[i][2], k)>>])
  ELSE IF IsArray(out)
  THEN Arr([i \in 1..Len(Elems(out)) |->
              Later(IF IsArray(in) /\ i <= Len(Elems(in))
                    THEN Elems(in)[i] ELSE Undef,
                    Elems(out)[i], k)])
  ELSE out

\* the args of the second call: a new args object around the payload
\* object of the first call, as that call left it
SecondArgs == Set(args, "data", Get(callerArgs, "data"))

InitRepeat ==
  /\ prefixes \in Configs
  /\ pmodel \in ModelNames
  /\ payload \in {Leaf(idv) : idv \in IdValues}
  /\ depth = 0
  /\ specials = 0
  /\ operation = "none"
  /\ model = "none"
  /\ args = Undef
  /\ callerArgs = Undef
  /\ forwarded = Undef
  /\ queryCalls = 0
  /\ thrown = FALSE
  /\ idCalls = 0
  /\ entry = "createPrefixedIdsExtension"
  /\ client = Undef
  /\ given = DmmfObject
  /\ extension = "prefixedIds"
  /\ constructionError = ""
  /\ continuation = "resolves"
  /\ returned = Undef

\* the second call gave h
ReturnAgain(a, h) ==
  /\ callerArgs' = Later(a, h.caller, idCalls)
  /\ queryCalls' = IF h.ok THEN 2 ELSE 1
  /\ thrown' = ~h.ok
  /\ idCalls' = idCalls + h.n
  /\ returned' = IF h.ok THEN query(Later(a, h.fwd, idCalls))
                 ELSE <<"threw", "TypeError">>

CallAgain ==
  /\ operation \in {"create", "createMany"}
  /\ queryCalls = 1
  /\ ~thrown
  /\ ReturnAgain(SecondArgs,
                 createOperationHandler(operation, SecondArgs, model))
  /\ UNCHANGED <<prefixes, payload, pmodel, depth, specials, operation, model,
                 args, forwarded, lifecycle>>

NextRepeat ==
  \/ WrapCreate
  \/ CallCreate
  \/ CallCreateMany
  \/ CallAgain

SpecRepeat == InitRepeat /\ [][NextRepeat]_vars

----------------------------------------------------------------------
(* Reading the caller's args and the forwarded args side by side.  A path  *)
(* is a sequence of keys; the element i of an array has key ToString(i).   *)

\* the value under key k of v: a property of an object, an element of an
\* array, undefined otherwise
Child(v, k) ==
  IF IsPlainObj(v) THEN Get(v, k)
  ELSE IF IsArray(v) /\ \E i \in 1..Len(Elems(v)) : ToString(i - 1) = k
  THEN Elems(v)[CHOOSE i \in 1..Len(Elems(v)) : ToString(i - 1) = k]
  ELSE Undef

RECURSIVE At(_, _)
At(v, path) ==
  IF path = <<>> THEN v ELSE At(Child(v, Head(path)), Tail(path))

\* element i of v, undefined when v is no array or is shorter
ElemAt(v, i) ==
  IF IsArray(v) /\ i <= Len(Elems(v)) THEN Elems(v)[i] ELSE Undef

IdOf(v) == Child(v, "id")

Prefixed(m) ==
  IF prefixes.isFunction THEN prefixes.table[m] # Null
  ELSE m \in DOMAIN prefixes.table

PrefixOf(m) == prefixes.table[m][2]

\* v is a string the id generator produced for the prefix of entity m
GeneratedFor(v, m) == Tag(v) = "gen" /\ v[2][1] = PrefixOf(m)

\* the records a payload describes, by the meaning of nested writes: a
\* record rec of entity m at path, and the records nested under the relation
\* fields of rec by the operation steps in allowed.  Each is
\* [path, model, shape, via, parent]: shape is "create" for a record to be
\* inserted and "update" for the body of an update, via the step that leads
\* to the record and parent the shape of the record it is nested in
RECURSIVE Records(_, _, _, _, _, _, _)
RECURSIVE Contained(_, _, _, _, _)

\* the records under one operation value that is a single item or a list
Items(v, path) ==
  IF IsArray(v)
  THEN {<<Elems(v)[i], path \o <<ToString(i - 1)>> >> : i \in 1..Len(Elems(v))}
  ELSE IF IsPlainObj(v) THEN {<<v, path>>} ELSE {}

Contained(c, path, t, parent, allowed) ==
  (IF "create" \in allowed
   THEN Records(Get(c, "create"), path \o <<"create">>, t, "create",
                "create", parent, allowed)
   ELSE {})
  \cup
  (IF "createMany" \in allowed /\ IsPlainObj(Get(c, "createMany"))
   THEN Records(Get(Get(c, "createMany"), "data"),
                path \o <<"createMany", "data">>, t, "create", "createMany",
                parent, allowed)
   ELSE {})
  \cup
  (IF "connectOrCreate" \in allowed
   THEN UNION { Records(Child(it[1], "create"), it[2] \o <<"create">>, t,
                        "create", "connectOrCreate", parent, allowed) :
                it \in Items(Get(c, "connectOrCreate"),
                             path \o <<"connectOrCreate">>) }
   ELSE {})
  \cup
  (IF "connectOrCreate[]" \in allowed /\ IsArray(Get(c, "connectOrCreate"))
   THEN UNION { Records(Child(it[1], "create"), it[2] \o <<"create">>, t,
                        "create", "connectOrCreate", parent, allowed) :
                it \in Items(Get(c, "connectOrCreate"),
                             path \o <<"connectOrCreate">>) }
   ELSE {})
  \cup
  (IF "upsert.create" \in allowed
   THEN UNION { Records(Child(it[1], "create"), it[2] \o <<"create">>, t,
                        "create", "upsert.create", parent, allowed) :
                it \in Items(Get(c, "upsert"), path \o <<"upsert">>) }
   ELSE {})
  \cup
  (IF "upsert.update" \in allowed
   THEN UNION { Records(Child(it[1], "update"), it[2] \o <<"update">>, t,
                        "update", "upsert.update", parent, allowed) :
                it \in Items(Get(c, "upsert"), path \o <<"upsert">>) }
   ELSE {})
  \cup
  UNION { IF op \in allowed
          THEN UNION { Records(Child(it[1], "data"), it[2] \o <<"data">>, t,
                               "update", op, parent, allowed) :
                       it \in Items(Get(c, op), path \o <<op>>) }
          ELSE {} : op \in {"update", "updateMany"} }

Records(rec, path, m, shape, via, parent, allowed) ==
  IF IsArray(rec)
  THEN UNION { Records(Elems(rec)[i], path \o <<ToString(i - 1)>>, m, shape,
                       via, parent, allowed) : i \in 1..Len(Elems(rec)) }
  ELSE IF IsPlainObj(rec)
  THEN { [path |-> path, model |-> m, shape |-> shape, via |-> via,
          parent |-> parent] }
       \cup UNION { IF IsPlainObj(Entries(rec)[i][2])
                       /\ Truthy(findRelationModel(dmmf, m, Entries(rec)[i][1]))
                    THEN Contained(Entries(rec)[i][2],
                                   path \o <<Entries(rec)[i][1]>>,
                                   findRelationModel(dmmf, m,
                                                     Entries(rec)[i][1])[2],
                                   shape, allowed)
                    ELSE {} : i \in 1..Len(Entries(rec)) }
  ELSE {}

CreateSteps == {"create", "createMany", "connectOrCreate", "upsert.create"}
AllSteps == CreateSteps \cup {"upsert.update", "update", "updateMany"}
\* the steps the rewriter descends: connectOrCreate only when it is a list
RewrittenSteps ==
  {"create", "createMany", "connectOrCreate[]", "upsert.create",
   "upsert.update"}

\* the records of the args of the last call: the roots each operation
\* writes, and what is nested under them by the steps in allowed (under the
\* elements of a top-level createMany: by the steps in inMany)
ArgRecords(allowed, inMany) ==
  CASE operation = "create" ->
         Records(Get(args, "data"), <<"data">>, model, "create", "root",
                 "none", allowed)
    [] operation \in {"update", "updateMany"} ->
         Records(Get(args, "data"), <<"data">>, model, "update", "root",
                 "none", allowed)
    [] operation = "upsert" ->
         Records(Get(args, "create"), <<"create">>, model, "create", "root",
                 "none", allowed)
         \cup Records(Get(args, "update"), <<"update">>, model, "update",
                      "root", "none", allowed)
    [] operation = "connectOrCreate" ->
         Records(Get(args, "create"), <<"create">>, model, "create", "root",
                 "none", allowed)
    [] operation = "createMany" ->
         Records(Get(args, "data"), <<"data">>, model, "create", "root",
                 "none", inMany)
    [] OTHER -> {}

\* a handler has run to completion and handed its args to query
Forwarded == operation # "none" /\ ~thrown

\* the caller gave v an id that counts: a non-empty string, a non-zero number
CallerId(v) ==
  IsPlainObj(v) /\ Tag(IdOf(v)) \in {"str", "num"} /\ Truthy(IdOf(v))

\* the record r belongs to an entity with a prefix and came without an id
NeedsId(r) == Prefixed(r.model) /\ ~Truthy(IdOf(At(args, r.path)))

\* the record r is forwarded with an id generated for its entity
GotId(r) == GeneratedFor(IdOf(At(forwarded, r.path)), r.model)

----------------------------------------------------------------------------
(* C1: every node the caller supplied with a truthy id (a non-empty string *)
(* or a non-zero number) is forwarded with exactly that id, at every       *)
(* nesting depth and in every handler; a generated id never replaces it.   *)

\* wherever a has a node with a caller id, f has a node with the same id
RECURSIVE IdsKept(_, _)
IdsKept(a, f) ==
  IF IsPlainObj(a)
  THEN /\ CallerId(a) => IsPlainObj(f) /\ IdOf(f) = IdOf(a)
       /\ \A i \in 1..Len(Entries(a)) :
            IdsKept(Entries(a)[i][2], Prop(f, Entries(a)[i][1]))
  ELSE IF IsArray(a)
  THEN \A i \in 1..Len(Elems(a)) : IdsKept(Elems(a)[i], ElemAt(f, i))
  ELSE TRUE

C1_TruthyIdPreserved == Forwarded => IdsKept(args, forwarded)

\* a create call whose root got a generated id while a record of a prefixed
\* entity two relation levels down kept the id the caller gave it
C1_Witness ==
  /\ Forwarded /\ operation = "create"
  /\ Tag(IdOf(Get(forwarded, "data"))) = "gen"
  /\ \E r \in ArgRecords(CreateSteps, {}) :
       /\ Len(r.path) >= 5
       /\ Prefixed(r.model)
       /\ IdOf(At(args, r.path)) = Str("keep")
       /\ IdOf(At(forwarded, r.path)) = Str("keep")

----------------------------------------------------------------------------
(* C2: for every entity with a configured non-null prefix, every record to *)
(* be created that has no id or a falsy one, and that is reached from the  *)
(* root through create, createMany, upsert.create and connectOrCreate      *)
(* .create steps, is forwarded with an id generated for that entity's      *)
(* prefix, at any nesting depth.                                           *)

C2_CreateNodesGetIds ==
  Forwarded =>
    \A r \in ArgRecords(CreateSteps, {}) :
      r.shape = "create" /\ NeedsId(r) => GotId(r)

----------------------------------------------------------------------------
(* C3: a record whose entity is absent from the prefix mapping, or for     *)
(* which the prefix function returns null, is forwarded without an id      *)
(* field being added, in every handler and at any nesting depth.           *)

C3_UnprefixedNeverGetsId ==
  Forwarded =>
    \A r \in ArgRecords(AllSteps, AllSteps) :
      ~Prefixed(r.model) =>
        /\ IsPlainObj(At(forwarded, r.path))
        /\ IdOf(At(forwarded, r.path)) = IdOf(At(args, r.path))

\* a call that generated an id for its root and forwarded a nested record of
\* an entity without prefix, which came without id, still without id
C3_Witness ==
  /\ Forwarded
  /\ idCalls > 0
  /\ \E r \in ArgRecords(CreateSteps, {}) :
       /\ r.via \in CreateSteps
       /\ ~Prefixed(r.model)
       /\ ~HasKey(At(args, r.path), "id")
       /\ ~HasKey(At(forwarded, r.path), "id")

----------------------------------------------------------------------------
(* C4: in the update and updateMany handlers (args.data) and in every      *)
(* upsert update branch (top-level args.update, nested upsert.update) the  *)
(* root record of the branch never receives a generated id, while the      *)
(* records under create, createMany.data and connectOrCreate.create of its *)
(* relation fields still receive ids.                                      *)

UpdateBranchRoot(r) ==
  r.shape = "update" /\ r.via \in {"root", "upsert.update"}

C4_UpdateRootsKeepNoId ==
  Forwarded =>
    \A r \in ArgRecords(CreateSteps \cup {"upsert.update"}, {}) :
      /\ UpdateBranchRoot(r) =>
           IdOf(At(forwarded, r.path)) = IdOf(At(args, r.path))
      /\ ( /\ r.parent = "update"
           /\ r.via \in {"create", "createMany", "connectOrCreate"}
           /\ NeedsId(r) )
         => GotId(r)

----------------------------------------------------------------------------
(* C5: a record of a prefixed entity whose id is absent, null, the empty   *)
(* string or the number 0 counts as having no id: on a create path its id  *)
(* is replaced by a generated id of the entity's prefix.                   *)

NoIdForms == {Undef, Null, Str(""), Num(0)}

C5_FalsyIdsReplaced ==
  Forwarded =>
    \A r \in ArgRecords(CreateSteps, {}) :
      ( /\ r.shape = "create"
        /\ Prefixed(r.model)
        /\ IdOf(At(args, r.path)) \in NoIdForms )
      => GotId(r)

----------------------------------------------------------------------------
(* C6: the sub-trees under connect, disconnect and delete are forwarded    *)
(* deep-equal to their input, with no id added anywhere inside them, also  *)
(* when they sit beside create-shaped operations of the same relation      *)
(* field.                                                                  *)

PassThroughOps == {"connect", "disconnect", "delete"}

\* every value under a connect, disconnect or delete key of a is the value
\* under the same key of f
RECURSIVE PassedThrough(_, _)
PassedThrough(a, f) ==
  IF IsPlainObj(a)
  THEN \A i \in 1..Len(Entries(a)) :
         IF Entries(a)[i][1] \in PassThroughOps
         THEN Prop(f, Entries(a)[i][1]) = Entries(a)[i][2]
         ELSE PassedThrough(Entries(a)[i][2], Prop(f, Entries(a)[i][1]))
  ELSE IF IsArray(a)
  THEN \A i \in 1..Len(Elems(a)) : PassedThrough(Elems(a)[i], ElemAt(f, i))
  ELSE TRUE

C6_ConnectDisconnectDeleteUntouched ==
  Forwarded => PassedThrough(args, forwarded)

Front(path) == SubSeq(path, 1, Len(path) - 1)

\* a relation field with a create that got a generated id and, beside it, a
\* connect and a delete of records without id that were forwarded as given
C6_Witness ==
  /\ Forwarded
  /\ \E r \in ArgRecords(CreateSteps, {}) :
       /\ r.via = "create"
       /\ GotId(r)
       /\ \A op \in {"connect", "delete"} :
            /\ IsPlainObj(At(args, Front(r.path) \o <<op>>))
            /\ ~HasKey(At(args, Front(r.path) \o <<op>>), "id")
            /\ At(forwarded, Front(r.path) \o <<op>>)
                 = At(args, Front(r.path) \o <<op>>)

----------------------------------------------------------------------------
(* C7: arrays are mapped element by element: a createMany.data (top-level  *)
(* or nested) or create array of length N is forwarded as N elements in    *)
(* the same order, each keeping its own id or receiving a new one; an      *)
(* empty array stays empty, and the other fields of a nested createMany    *)
(* value are unchanged.                                                    *)

NonIdKeys(o) == SelectSeq(Keys(o), LAMBDA k : k # "id")

\* f is the record a with, at most, an id generated where a had none that
\* counts, and rewritten relation values
SameButId(a, f) ==
  /\ IsPlainObj(f)
  /\ NonIdKeys(f) = NonIdKeys(a)
  /\ \A i \in 1..Len(Entries(a)) :
       (Entries(a)[i][1] # "id" /\ ~IsObject(Entries(a)[i][2]))
         => Get(f, Entries(a)[i][1]) = Entries(a)[i][2]
  /\ IF CallerId(a) THEN IdOf(f) = IdOf(a)
     ELSE IdOf(f) = IdOf(a) \/ Tag(IdOf(f)) = "gen"

ElementWise(a, f) ==
  /\ IsArray(f)
  /\ Len(Elems(f)) = Len(Elems(a))
  /\ \A i \in 1..Len(Elems(a)) :
       IsPlainObj(Elems(a)[i]) => SameButId(Elems(a)[i], Elems(f)[i])

\* f is the createMany value a with data mapped and all else as it was
CreateManyMapped(a, f) ==
  /\ IsPlainObj(f)
  /\ Keys(f) = Keys(a)
  /\ \A i \in 1..Len(Entries(a)) :
       IF Entries(a)[i][1] = "data"
       THEN IsArray(Entries(a)[i][2])
              => ElementWise(Entries(a)[i][2], Get(f, "data"))
       ELSE Get(f, Entries(a)[i][1]) = Entries(a)[i][2]

RECURSIVE ArraysMapped(_, _)
ArraysMapped(a, f) ==
  IF IsPlainObj(a)
  THEN \A i \in 1..Len(Entries(a)) :
         /\ (Entries(a)[i][1] = "create" /\ IsArray(Entries(a)[i][2]))
              => ElementWise(Entries(a)[i][2], Prop(f, "create"))
         /\ (Entries(a)[i][1] = "createMany" /\ IsPlainObj(Entries(a)[i][2]))
              => CreateManyMapped(Entries(a)[i][2], Prop(f, "createMany"))
         /\ ArraysMapped(Entries(a)[i][2], Prop(f, Entries(a)[i][1]))
  ELSE IF IsArray(a)
  THEN \A i \in 1..Len(Elems(a)) : ArraysMapped(Elems(a)[i], ElemAt(f, i))
  ELSE TRUE

C7_ArraysMappedElementWise ==
  Forwarded =>
    /\ operation = "createMany" => CreateManyMapped(args, forwarded)
    /\ ArraysMapped(args, forwarded)

\* a nested createMany whose first element kept the caller's id and whose
\* second element got a generated one, in a list forwarded at length two
C7_Witness ==
  /\ Forwarded
  /\ \E r \in ArgRecords(CreateSteps, {}) :
       /\ r.via = "createMany"
       /\ r.path[Len(r.path)] = "0"
       /\ IdOf(At(args, r.path)) = Str("keep")
       /\ IdOf(At(forwarded, r.path)) = Str("keep")
       /\ Len(Elems(At(forwarded, Front(r.path)))) = 2
       /\ At(args, Front(r.path) \o <<"1">>) = Sibling
       /\ Tag(IdOf(At(forwarded, Front(r.path) \o <<"1">>))) = "gen"
       /\ Get(At(forwarded, Front(r.path) \o <<"1">>), "name") = Str("s")

----------------------------------------------------------------------------
(* C8: with an id generator that returns a fresh value on every call, all  *)
(* ids generated within one handler call are pairwise distinct: siblings   *)
(* of a createMany.data or create array and records at different depths    *)
(* never share a generated id.                                             *)

\* the generated ids anywhere in v, one entry for every place
RECURSIVE GeneratedIds(_)
RECURSIVE GeneratedIdsIn(_)
GeneratedIdsIn(vs) ==
  IF vs = <<>> THEN <<>>
  ELSE GeneratedIds(Head(vs)) \o GeneratedIdsIn(Tail(vs))

GeneratedIds(v) ==
  IF Tag(v) = "gen" THEN <<v>>
  ELSE IF IsPlainObj(v)
  THEN GeneratedIdsIn([i \in 1..Len(Entries(v)) |-> Entries(v)[i][2]])
  ELSE IF IsArray(v) THEN GeneratedIdsIn(Elems(v))
  ELSE <<>>

Distinct(ids) ==
  \A i \in 1..Len(ids) : \A j \in 1..Len(ids) : i # j => ids[i] # ids[j]

C8_GeneratedIdsDistinct == Forwarded => Distinct(GeneratedIds(forwarded))

\* a call that generated ids for the root, for a record nested in it and for
\* that record's sibling in the same list
C8_Witness ==
  /\ Forwarded /\ operation = "create"
  /\ Tag(IdOf(Get(forwarded, "data"))) = "gen"
  /\ \E r \in ArgRecords(CreateSteps, {}) :
       /\ r.via \in {"create", "createMany"}
       /\ r.path[Len(r.path)] = "0"
       /\ GotId(r)
       /\ Tag(IdOf(At(forwarded, Front(r.path) \o <<"1">>))) = "gen"
       /\ IdOf(At(forwarded, Front(r.path) \o <<"1">>))
            # IdOf(At(forwarded, r.path))

----------------------------------------------------------------------------
(* C9: in any create, update or upsert call every nested record that the   *)
(* payload creates (under a relation field's create, createMany.data,      *)
(* connectOrCreate.create or upsert.create, at any depth and whatever      *)
(* operations enclose it, a relation's nested update included) is          *)
(* forwarded with a prefixed id when its entity has a prefix and the       *)
(* record came without id.                                                 *)

C9_NestedCreatedRecordsGetIds ==
  (Forwarded /\ operation \in {"create", "update", "upsert"}) =>
    \A r \in ArgRecords(AllSteps, {}) :
      (r.shape = "create" /\ r.via # "root" /\ NeedsId(r)) => GotId(r)

----------------------------------------------------------------------------
(* C10: when a relation field's value holds connectOrCreate as a single    *)
(* object {where, create}, the forwarded create gets a generated id of the *)
(* related entity, the records created inside it get ids too, and where is *)
(* unchanged; the same holds for each element when connectOrCreate is a    *)
(* list.                                                                   *)

IsPrefixOf(p, q) == Len(p) <= Len(q) /\ SubSeq(q, 1, Len(p)) = p

C10_ConnectOrCreateGetsId ==
  Forwarded =>
    \A r \in ArgRecords(CreateSteps, {}) :
      r.via = "connectOrCreate" =>
        /\ NeedsId(r) => GotId(r)
        /\ At(forwarded, Front(r.path) \o <<"where">>)
             = At(args, Front(r.path) \o <<"where">>)
        /\ \A q \in ArgRecords(CreateSteps, {}) :
             (IsPrefixOf(r.path, q.path) /\ q.shape = "create" /\ NeedsId(q))
               => GotId(q)

----------------------------------------------------------------------------
(* C11: for the upsert value of a relation field the rewriter visits,      *)
(* given as one object or as a list: each item's create gets a root id     *)
(* when it has none and its entity has a prefix, each item's update gets   *)
(* no root id while records created inside that update still get ids; one  *)
(* object stays one object, a list stays a list of the same length and     *)
(* order, and where is unchanged.                                          *)

\* the path of the upsert value that holds the item at path item
UpsertValueOf(item) ==
  IF item[Len(item)] = "upsert" THEN item ELSE Front(item)

\* the upsert item at path item is forwarded as an item of a value of the
\* same kind and length, with the where it came with
UpsertItemKept(item) ==
  /\ IsPlainObj(At(forwarded, item))
  /\ Get(At(forwarded, item), "where") = Get(At(args, item), "where")
  /\ Tag(At(forwarded, UpsertValueOf(item))) = Tag(At(args, UpsertValueOf(item)))
  /\ IsArray(At(args, UpsertValueOf(item)))
       => Len(Elems(At(forwarded, UpsertValueOf(item))))
            = Len(Elems(At(args, UpsertValueOf(item))))

C11_NestedUpsertBranches ==
  Forwarded =>
    \A r \in ArgRecords(RewrittenSteps, {}) :
      /\ (r.via = "upsert.create" /\ r.parent # "none") =>
           /\ UpsertItemKept(Front(r.path))
           /\ SameButId(At(args, r.path), At(forwarded, r.path))
           /\ NeedsId(r) => GotId(r)
      /\ (r.via = "upsert.update" /\ r.parent # "none") =>
           /\ UpsertItemKept(Front(r.path))
           /\ SameButId(At(args, r.path), At(forwarded, r.path))
           /\ IdOf(At(forwarded, r.path)) = IdOf(At(args, r.path))
      /\ (r.parent = "update" /\ r.via \in {"create", "createMany"}
          /\ NeedsId(r)) => GotId(r)

\* a list of two upsert items under a relation field: the first item's
\* update came and went without id, a record created inside that update and
\* one created inside the item's create got ids
C11_Witness ==
  /\ Forwarded
  /\ \E r \in ArgRecords(RewrittenSteps, {}) :
       /\ r.via = "upsert.update" /\ r.parent # "none"
       /\ r.path[Len(r.path) - 1] = "0"
       /\ Len(Elems(At(forwarded, Front(Front(r.path))))) = 2
       /\ ~HasKey(At(args, r.path), "id")
       /\ ~HasKey(At(forwarded, r.path), "id")
       /\ \E q \in ArgRecords(RewrittenSteps, {}) :
            /\ IsPrefixOf(r.path, q.path) /\ q.via = "create" /\ GotId(q)
       /\ \E q \in ArgRecords(RewrittenSteps, {}) :
            /\ IsPrefixOf(Front(r.path) \o <<"create">>, q.path)
            /\ q.via = "create" /\ GotId(q)

----------------------------------------------------------------------------
(* C12: the top-level upsert handler gives args.create a root id when it   *)
(* has none and the entity has a prefix, never gives args.update a root    *)
(* id, and gives ids to the nested creates of both args.create and         *)
(* args.update before it forwards.                                         *)

C12_UpsertHandler ==
  (Forwarded /\ operation = "upsert") =>
    \A r \in ArgRecords({"create", "createMany"}, {}) :
      /\ (r.path = <<"create">> /\ NeedsId(r)) => GotId(r)
      /\ r.path = <<"update">> =>
           IdOf(At(forwarded, r.path)) = IdOf(At(args, r.path))
      /\ (r.via \in {"create", "createMany"} /\ NeedsId(r)) => GotId(r)

\* an upsert call that gave its create root an id, forwarded its update root
\* without one, and gave ids to a nested create of either branch
C12_Witness ==
  /\ Forwarded /\ operation = "upsert"
  /\ ~HasKey(Get(args, "create"), "id")
  /\ GeneratedFor(IdOf(Get(forwarded, "create")), model)
  /\ IsPlainObj(Get(args, "update"))
  /\ ~HasKey(Get(forwarded, "update"), "id")
  /\ \A branch \in {"create", "update"} :
       \E r \in ArgRecords({"create", "createMany"}, {}) :
         /\ Head(r.path) = branch /\ r.via = "create" /\ GotId(r)

----------------------------------------------------------------------------
(* C13: every handler invokes the continuation exactly once per call, only *)
(* after all id assignment and rewriting is finished, passes it the        *)
(* rewritten args, does nothing after invoking it, and returns the         *)
(* continuation's result or rejection unchanged.                           *)

C13_ContinuationInvokedOnce ==
  operation # "none" =>
    /\ queryCalls = 1
    /\ returned = query(forwarded)

----------------------------------------------------------------------------
(* C14: createPrefixedIdsExtension, and extendPrismaClient when no schema  *)
(* can be extracted from the client, raises "DMMF is required for prefixed *)
(* IDs extension" at construction when the schema is null or undefined;    *)
(* no handler exists or is ever installed in that case.                    *)

C14_ConstructionFailsWithoutSchema ==
  /\ entry = "extendPrismaClient" => given = getDMMF(client)
  /\ (entry # "none" /\ given \in {Null, Undef}) =>
       /\ constructionError = DMMF_REQUIRED
       /\ extension = "none"
       /\ operation = "none"
       /\ queryCalls = 0

\* extendPrismaClient on a client that carries no schema raised the error
\* and installed nothing
C14_Witness ==
  /\ entry = "extendPrismaClient"
  /\ client = Obj(<<>>)
  /\ given = Undef
  /\ constructionError = DMMF_REQUIRED
  /\ extension = "none"

----------------------------------------------------------------------------
(* C15: once an extension is constructed, no handler and no call of the    *)
(* rewriter raises an error of its own, whatever the shape of args and     *)
(* payload (an operation keyword with a null or primitive value, a value   *)
(* of the wrong shape, null batch elements): the only error the core       *)
(* raises is the construction-time configuration error.                    *)

C15_NoErrorOfItsOwn == extension = "prefixedIds" => ~thrown

----------------------------------------------------------------------------
(* C16: whenever the createMany value of a relation field has a data field *)
(* that is not an array (a string, a number, null or a plain object), the  *)
(* forwarded createMany value is deep-equal to the input, no id is added   *)
(* to it or inside it, and the rest of the payload is still processed.     *)

\* v is the value of a relation field whose createMany has a data field
\* that is no array
HasNonArrayData(v) ==
  /\ IsPlainObj(v)
  /\ IsPlainObj(Get(v, "createMany"))
  /\ HasKey(Get(v, "createMany"), "data")
  /\ ~IsArray(Get(Get(v, "createMany"), "data"))

C16_NonArrayDataUntouched ==
  Forwarded =>
    \A r \in ArgRecords(RewrittenSteps, {}) :
      \A i \in 1..Len(Entries(At(args, r.path))) :
        ( /\ Truthy(findRelationModel(dmmf, r.model,
                                      Entries(At(args, r.path))[i][1]))
          /\ HasNonArrayData(Entries(At(args, r.path))[i][2]) )
        => /\ At(forwarded,
                 r.path \o <<Entries(At(args, r.path))[i][1], "createMany">>)
                = Get(Entries(At(args, r.path))[i][2], "createMany")
           /\ \A q \in ArgRecords(RewrittenSteps, {}) :
                ( /\ q.path = r.path \o <<Entries(At(args, r.path))[i][1],
                                          "create">>
                  /\ NeedsId(q) )
                => GotId(q)

----------------------------------------------------------------------------
(* C17: when no entity has a prefix (an empty mapping, a prefix function   *)
(* that always returns null), or when the payload has no relation field    *)
(* known to the schema and its root entity has no prefix, the args given   *)
(* to the continuation are deep-equal to the caller's args, for every      *)
(* operation and every payload shape.                                      *)

\* v without the keys whose value is undefined (absent for deep equality)
RECURSIVE Defined(_)
DefinedEntries(es) ==
  SelectSeq([i \in 1..Len(es) |-> <<es[i][1], Defined(es[i][2])>>],
            LAMBDA e : e[2] # Undef)

Defined(v) ==
  IF IsPlainObj(v) THEN Obj(DefinedEntries(Entries(v)))
  ELSE IF IsArray(v)
  THEN Arr([i \in 1..Len(Elems(v)) |-> Defined(Elems(v)[i])])
  ELSE v

DeepEqual(v, w) == Defined(v) = Defined(w)

NoPrefixAtAll == \A m \in ModelNames : ~Prefixed(m)

\* no key of the payload's root record is a relation field of its entity
NoKnownRelation ==
  \A i \in 1..Len(Entries(payload)) :
    ~Truthy(findRelationModel(dmmf, pmodel, Entries(payload)[i][1]))

C17_NothingToDoPassesThrough ==
  ( /\ Forwarded
    /\ NoPrefixAtAll \/ (NoKnownRelation /\ ~Prefixed(pmodel)) )
  => DeepEqual(forwarded, args)

----------------------------------------------------------------------------
(* C18: no handler mutates the objects supplied by the caller: after a     *)
(* create, createMany, upsert or connectOrCreate call the caller's         *)
(* args.data object, args.create object and each element of an args.data   *)
(* array have exactly the fields and values they had before the call.      *)

C18_CallerObjectsUnchanged ==
  operation \in {"create", "createMany", "upsert", "connectOrCreate"} =>
    /\ Get(callerArgs, "data") = Get(args, "data")
    /\ Get(callerArgs, "create") = Get(args, "create")

----------------------------------------------------------------------------
(* C19: the id assigned to a record is exactly idGenerator(p), p the       *)
(* prefix configured for the record's entity (the mapped string of an      *)
(* object mapping, the result of a prefix function for the entity name);   *)
(* when the function returns null or the mapping has no entry, the         *)
(* generator is not invoked for that record and no id is set.              *)

\* id is the value of an invocation of the generator, during this call, with
\* the prefix configured for entity m
GeneratorResult(id, m) ==
  /\ Prefixed(m)
  /\ \E k \in 0..(idCalls - 1) : id = idGenerator(PrefixOf(m), k).v

C19_IdIsGeneratorOfPrefix ==
  Forwarded =>
    /\ \A r \in ArgRecords(AllSteps, AllSteps) :
         Tag(IdOf(At(forwarded, r.path))) = "gen" =>
           GeneratorResult(IdOf(At(forwarded, r.path)), r.model)
    /\ idCalls = Len(GeneratedIds(forwarded))

\* under a prefix function that returns null for the root's entity: the root
\* is forwarded without id, the record nested in it has the generator's
\* result for its own prefix, and that was the only invocation
C19_Witness ==
  /\ Forwarded
  /\ operation = "create"
  /\ prefixes.isFunction
  /\ ~Prefixed(model)
  /\ IdOf(At(forwarded, <<"data">>)) = Undef
  /\ idCalls = 1
  /\ \E r \in ArgRecords(CreateSteps, {}) :
       /\ r.path # <<"data">>
       /\ IdOf(At(forwarded, r.path)) = idGenerator(PrefixOf(r.model), 0).v

----------------------------------------------------------------------------
(* C20: when a record has an operation-keyword key (create, createMany,    *)
(* connectOrCreate, upsert, update, updateMany) whose value is an object,  *)
(* the related entity is resolved from the non-operation keys of the       *)
(* record.  As stated: only the first non-operation key, in insertion      *)
(* order, is used, and when it does not resolve to a relation the          *)
(* keyword's value is left untouched even when a later sibling key is a    *)
(* relation field.  As the code has it: the first non-operation key that   *)
(* resolves to a relation decides, and the keyword's value is left         *)
(* untouched only when no non-operation key resolves.                      *)

\* the records the rewriter visits in the args of the last call
Visited ==
  IF operation = "createMany" THEN {} ELSE ArgRecords(RewrittenSteps, {})

\* the operation keywords of record rec whose value is an object
KeywordsOf(rec) ==
  {k \in {RELATION_OPERATIONS[i] : i \in 1..Len(RELATION_OPERATIONS)} :
     HasKey(rec, k) /\ IsObject(Get(rec, k))}

\* the positions of the keys of rec that are no operation keyword
NonOperationKeys(rec) ==
  {i \in 1..Len(Keys(rec)) : ~isRelationOperation(Keys(rec)[i])}

\* those of them that are relation fields of entity m
ResolvingKeys(rec, m) ==
  {i \in NonOperationKeys(rec) :
     Truthy(findRelationModel(dmmf, m, Keys(rec)[i]))}

First(S) == CHOOSE i \in S : \A j \in S : i <= j

\* the value of keyword k of the record at r is forwarded as it came
KeywordUntouched(r, k) ==
  Get(At(forwarded, r.path), k) = Get(At(args, r.path), k)

\* the record under keyword create of the record at r came without id and
\* is forwarded with an id generated for entity m
CreateGotIdFor(r, m) ==
  /\ IsPlainObj(Get(At(args, r.path), "create"))
  /\ ~Truthy(IdOf(Get(At(args, r.path), "create")))
  /\ GeneratedFor(IdOf(Get(At(forwarded, r.path), "create")), m)

----------------------------------------------------------------------------
(* C21: the rewrite of a keyword's value is the same in CASE 1 (the key is *)
(* itself an operation keyword) and CASE 2 (the key is a relation field    *)
(* holding operation keywords): for the same keyword, the same value (one  *)
(* object or a list) and the same related entity both produce the same     *)
(* rewritten value, for each of the six keywords.                          *)

\* v with every generated id reduced to its prefix (two rewrites of one
\* value differ in the strings the generator hands out)
RECURSIVE Anon(_)
Anon(v) ==
  IF Tag(v) = "gen" THEN Gen(v[2][1], 0)
  ELSE IF IsPlainObj(v)
  THEN Obj([i \in 1..Len(Entries(v)) |->
              <<Entries(v)[i][1], Anon(Entries(v)[i][2])>>])
  ELSE IF IsArray(v) THEN Arr([i \in 1..Len(Elems(v)) |-> Anon(Elems(v)[i])])
  ELSE v

\* the keywords under relation field f of the record at r whose value is
\* an object, so that CASE 1 would act on the same value
KeywordsUnder(r, f) ==
  IF /\ Truthy(findRelationModel(dmmf, r.model, f))
     /\ IsPlainObj(Get(At(args, r.path), f))
  THEN KeywordsOf(Get(At(args, r.path), f))
  ELSE {}

\* what CASE 1 makes of the value of keyword k under field f of the record
CaseAValue(r, f, k) ==
  Case1Dispatch(k, Get(Get(At(args, r.path), f), k),
                findRelationModel(dmmf, r.model, f)[2], 0).v

C21_CasesRewriteAlike ==
  Forwarded =>
    \A r \in Visited :
      \A i \in 1..Len(Keys(At(args, r.path))) :
        \A k \in KeywordsUnder(r, Keys(At(args, r.path))[i]) :
          Anon(At(forwarded,
                  r.path \o <<Keys(At(args, r.path))[i], k>>))
            = Anon(CaseAValue(r, Keys(At(args, r.path))[i], k))

----------------------------------------------------------------------------
(* C22: the values under the update and updateMany keywords of a relation  *)
(* field are forwarded deep-equal to their input: the rewriter does not    *)
(* recurse into them and adds no id anywhere inside them.                  *)

UpdateKeywords == {"update", "updateMany"}

----------------------------------------------------------------------------
(* C23: for an object-valued key that is no operation keyword: when the    *)
(* key does not resolve to a relation of the entity (unknown field, scalar *)
(* field), or resolves but its value holds none of the operation keywords, *)
(* the forwarded value at that key is deep-equal to the input value, even  *)
(* when it contains keys named create.                                     *)

\* processNestedData was called on a record and returned
RewroteRecord ==
  /\ operation = "processNestedData"
  /\ ~thrown
  /\ IsPlainObj(Get(args, "data"))

\* v holds none of the operation keywords (k in v, for each keyword k)
NoKeywordIn(v) ==
  \A i \in 1..Len(RELATION_OPERATIONS) : ~In(RELATION_OPERATIONS[i], v)

\* the keys of the record the call was made on that the claim is about
InertKeys ==
  {k \in {Keys(Get(args, "data"))[i] :
            i \in 1..Len(Keys(Get(args, "data")))} :
     /\ ~isRelationOperation(k)
     /\ IsObject(Get(Get(args, "data"), k))
     /\ \/ ~Truthy(findRelationModel(dmmf, model, k))
        \/ NoKeywordIn(Get(Get(args, "data"), k))}

C23_InertValuesForwardedAsGiven ==
  RewroteRecord =>
    \A k \in InertKeys :
      DeepEqual(Get(forwarded, k), Get(Get(args, "data"), k))

----------------------------------------------------------------------------
(* C24: findRelationModel(schema, entity, field) returns the name of the   *)
(* field's target entity exactly when the schema has an entity of that     *)
(* exact name with a field of that exact name whose kind is object; in     *)
(* every other case (unknown entity, unknown field, scalar field) it       *)
(* returns null, and it never raises.                                      *)

\* the target entities the schema gives for a reference field of that name
\* in an entity of that name
TargetsInSchema(entity, field) ==
  {t \in ModelNames :
     \E i \in 1..Len(dmmf.datamodel.models) :
       /\ dmmf.datamodel.models[i].name = entity
       /\ \E j \in 1..Len(dmmf.datamodel.models[i].fields) :
            dmmf.datamodel.models[i].fields[j]
              = Field(field, "object", t)}

C24_LookupFindsReferenceFieldsOnly ==
  operation = "findRelationModel" =>
    IF TargetsInSchema(model, args[2]) = {}
    THEN returned = Null
    ELSE returned \in {Str(t) : t \in TargetsInSchema(model, args[2])}

\* the lookup of a reference field of the schema gave its target entity
C24_Witness ==
  /\ operation = "findRelationModel"
  /\ model = "User"
  /\ args = Str("posts")
  /\ returned = Str("Post")

----------------------------------------------------------------------------
(* C25: with a generator that returns non-empty strings, in every handler  *)
(* call the generator is invoked exactly once for each record whose id     *)
(* ends up generated and not at all for any other record; in particular    *)
(* in the create, upsert and connectOrCreate handlers the direct root      *)
(* assignment followed by the rewriter's root step neither generates a     *)
(* second id for the root nor replaces the first.                          *)

\* the key under which each handler finds its root record
RootKey == IF operation \in {"upsert", "connectOrCreate"} THEN "create"
           ELSE "data"

\* the places of the forwarded args that hold the result of invocation k
HoldersOf(k) ==
  {i \in 1..Len(GeneratedIds(forwarded)) :
     GeneratedIds(forwarded)[i][2][2] = k}

C25_OneInvocationPerGeneratedId ==
  Forwarded =>
    /\ \A k \in 1..idCalls : Cardinality(HoldersOf(k)) = 1
    /\ \A i \in 1..Len(GeneratedIds(forwarded)) :
         GeneratedIds(forwarded)[i][2][2] \in 1..idCalls
    /\ ( /\ operation \in {"create", "upsert", "connectOrCreate"}
         /\ IsPlainObj(Get(args, RootKey))
         /\ ~Truthy(IdOf(Get(args, RootKey)))
         /\ Prefixed(model) )
       => IdOf(Get(forwarded, RootKey)) = idGenerator(PrefixOf(model), 0).v

\* a create call on a root without id that holds a nested record: the root
\* has the result of the first invocation, and there were two
C25_Witness ==
  /\ Forwarded
  /\ operation = "create"
  /\ Prefixed(model)
  /\ ~Truthy(IdOf(Get(args, "data")))
  /\ IdOf(Get(forwarded, "data")) = idGenerator(PrefixOf(model), 0).v
  /\ idCalls = 2
  /\ Len(GeneratedIds(forwarded)) = 2

----------------------------------------------------------------------------
(* C26: the top-level createMany handler gives a root id to each element   *)
(* of args.data that lacks one (when the entity has a prefix) and does     *)
(* nothing else: the relation fields inside the batch elements are         *)
(* forwarded unchanged, with no id added inside them.                      *)

\* batch element e is forwarded as f: with a generated root id when it
\* lacked one and the entity has a prefix, as it came otherwise
BatchElementForwarded(e, f) ==
  IF Prefixed(model) /\ ~Truthy(IdOf(e))
  THEN /\ GeneratedFor(IdOf(f), model)
       /\ f = Set(e, "id", IdOf(f))
  ELSE f = e

C26_CreateManyRootIdsOnly ==
  (Forwarded /\ operation = "createMany" /\ IsArray(Get(args, "data"))) =>
    /\ IsArray(Get(forwarded, "data"))
    /\ Len(Elems(Get(forwarded, "data"))) = Len(Elems(Get(args, "data")))
    /\ \A i \in 1..Len(Elems(Get(args, "data"))) :
         BatchElementForwarded(Elems(Get(args, "data"))[i],
                               Elems(Get(forwarded, "data"))[i])
    /\ forwarded = Set(args, "data", Get(forwarded, "data"))

\* a batch whose first element got a root id and holds, under a relation
\* field, a record of an entity with prefix that is forwarded without id
C26_Witness ==
  /\ Forwarded
  /\ operation = "createMany"
  /\ Prefixed(model)
  /\ GeneratedFor(IdOf(At(forwarded, <<"data", "0">>)), model)
  /\ \E m \in ModelNames, pf \in ModelNames \X {"posts", "comments"} :
       /\ pf \in RelationsInto(m)
       /\ pf[1] = model
       /\ Prefixed(m)
       /\ IsPlainObj(At(args, <<"data", "0", pf[2], "create">>))
       /\ IdOf(At(forwarded, <<"data", "0", pf[2], "create">>)) = Undef

----------------------------------------------------------------------------
(* C27: processNestedData never mutates its input: the payload it is given *)
(* and every object and array reachable from it are the same before and    *)
(* after the call, and every change appears only in the returned copy.     *)

RewriterCalled ==
  operation \in {"processNestedData", "processNestedData twice"}

C27_InputLeftAsGiven ==
  RewriterCalled =>
    /\ callerArgs = Get(args, "data")
    /\ ~thrown => returned = forwarded

\* a call that generated ids for the root and for a record nested in it
\* and left the payload it was given without them
C27_Witness ==
  /\ operation = "processNestedData"
  /\ ~thrown
  /\ idCalls >= 2
  /\ Get(args, "shouldAddRootId") = Bool(TRUE)
  /\ IdOf(Get(args, "data")) = Undef
  /\ Tag(IdOf(forwarded)) = "gen"
  /\ callerArgs = Get(args, "data")
  /\ returned = forwarded

----------------------------------------------------------------------------
(* C29: processNestedData is idempotent: applied to its own output, with   *)
(* the same entity, schema and add-root-id flag, it returns a value        *)
(* deep-equal to that output and does not invoke the id generator (the     *)
(* generator returning non-empty strings).                                 *)

C29_RewriterIdempotent ==
  operation = "processNestedData twice" =>
    /\ ~thrown
    /\ DeepEqual(forwarded, Get(args, "data"))
    /\ idCalls = 0

\* the second call was made on an output that holds generated ids, for the
\* root and for a record nested in it, and returned it as it was
C29_Witness ==
  /\ operation = "processNestedData twice"
  /\ Get(args, "shouldAddRootId") = Bool(TRUE)
  /\ Tag(IdOf(Get(args, "data"))) = "gen"
  /\ Len(GeneratedIds(Get(args, "data"))) >= 2
  /\ forwarded = Get(args, "data")
  /\ idCalls = 0

----------------------------------------------------------------------------
(* C30: for every record the rewriter returns, the set of keys is the set  *)
(* of keys of the input record plus at most the key id, no key is removed, *)
(* and every field other than id whose value is a scalar or null has its   *)
(* input value; the same holds for the args object a handler forwards      *)
(* (where, include, select and the like are unchanged).                    *)

KeySet(o) == {Keys(o)[i] : i \in 1..Len(Keys(o))}

\* record out has the keys of record in, and id at most besides, and the
\* scalar fields of in other than id with their values
RecordKept(in, out) ==
  /\ IsPlainObj(out)
  /\ KeySet(in) \subseteq KeySet(out)
  /\ KeySet(out) \subseteq KeySet(in) \cup {"id"}
  /\ \A k \in KeySet(in) \ {"id"} :
       ~IsObject(Get(in, k)) => Get(out, k) = Get(in, k)

\* the forwarded args have the keys of the caller's args, and the fields
\* that are not the payload with their values
ArgsKept ==
  /\ KeySet(forwarded) = KeySet(args)
  /\ \A k \in KeySet(args) \ {"data", "create", "update"} :
       Get(forwarded, k) = Get(args, k)

C30_KeysAndScalarsKept ==
  Forwarded =>
    /\ \A r \in Visited :
         IsPlainObj(At(args, r.path))
           => RecordKept(At(args, r.path), At(forwarded, r.path))
    /\ ArgsKept

\* an upsert call without update: the forwarded args have no update
\* either, where is as it came, and the record under create got an id and
\* kept its name
C30_Witness ==
  /\ Forwarded
  /\ operation = "upsert"
  /\ ~HasKey(args, "update")
  /\ KeySet(forwarded) = {"where", "create"}
  /\ Get(forwarded, "where") = Where
  /\ IdOf(Get(args, "create")) = Undef
  /\ Tag(IdOf(Get(forwarded, "create"))) = "gen"
  /\ Get(Get(forwarded, "create"), "name") = Str("n")

----------------------------------------------------------------------------
(* C28: two create calls made one after the other, or interleaved, with    *)
(* the same payload object that has no id each forward an id generated     *)
(* for that call: the second call does not reuse the id the first call     *)
(* generated, no state written by one call being visible to another.       *)

\* the payload record e came without id, and the two calls forwarded it as
\* first and second: each with a generated id, and not the same one
SeparateIds(e, first, second) ==
  (IsPlainObj(e) /\ ~Truthy(IdOf(e)) /\ Prefixed(model)) =>
    /\ GeneratedFor(IdOf(first), model)
    /\ GeneratedFor(IdOf(second), model)
    /\ IdOf(first) # IdOf(second)

C28_SecondCallGeneratesItsOwnId ==
  (queryCalls = 2 /\ ~thrown) =>
    IF operation = "create"
    THEN SeparateIds(Get(args, "data"), Get(forwarded, "data"),
                     Get(returned[2], "data"))
    ELSE \A i \in 1..Len(Elems(Get(args, "data"))) :
           SeparateIds(Elems(Get(args, "data"))[i],
                       ElemAt(Get(forwarded, "data"), i),
                       ElemAt(Get(returned[2], "data"), i))

====
